---------------------------- MODULE Spec2Model ----------------------------
(***************************************************************************)
(* Model of the job-hunter matching core (src/matcher/scorer.py), its      *)
(* data model (src/scrapers/base.py, src/matcher/profile.py), its          *)
(* configuration (src/config.py) and the commands of src/main.py that      *)
(* drive it.                                                               *)
(*                                                                         *)
(* Representation.                                                         *)
(*  - A Python string is a sequence of lexical tokens, the string being    *)
(*    the tokens joined by single blanks.  A token is a word (its exact    *)
(*    spelling, case included) or a number (its value; numbers are written *)
(*    with thousands separators, as the normalised salary is).  None is    *)
(*    the distinguished value Null.                                        *)
(*  - Character-level substring tests (Python's `in`) are computed from    *)
(*    the tokens with the infix/prefix/suffix relations of the words of    *)
(*    the alphabet (ProperInfix, ProperPrefix, ProperSuffix).              *)
(*  - Sub-scores are held in units of 1/3000 point (100 points = 300000), *)
(*    exact for roles of up to 6 words; the TF-IDF sub-score is truncated  *)
(*    to a thousandth of a point.  The composite score is held in tenths   *)
(*    (73.5 = 735).                                                        *)
(*  - A salary amount is an exact rational held in 1/120 dollar, so that   *)
(*    the factor 1.1 and the division by 12 are exact.                     *)
(***************************************************************************)
EXTENDS Integers, Sequences, FiniteSets, TLC

(***************************************************************************)
(* Lexical layer                                                           *)
(***************************************************************************)

\* A word token and a number token.
W(s) == [k |-> "w", s |-> s, v |-> 0]
N(v) == [k |-> "n", s |-> "#", v |-> v]

\* A text made of words only.
T(ws) == [i \in 1..Len(ws) |-> W(ws[i])]

\* Python's None for an optional text field.
Null == <<[k |-> "null", s |-> "", v |-> 0]>>

\* Python truthiness of an optional string: None and "" are falsy.
Truthy(x) == x # Null /\ x # <<>>

\* `x or ""`.
OrEmpty(x) == IF Truthy(x) THEN x ELSE <<>>

\* f"{x}": None is formatted as the word None.
Str(x) == IF x = Null THEN T(<<"None">>) ELSE x

\* str.lower() on one word: the capitalised words of the alphabet.
LowerWord(s) ==
    CASE s = "Senior" -> "senior"     [] s = "Program" -> "program"
      [] s = "Director" -> "director" [] s = "East" -> "east"
      [] s = "Africa" -> "africa"     [] s = "Nairobi," -> "nairobi,"
      [] s = "Kenya" -> "kenya"       [] s = "Country" -> "country"
      [] s = "World" -> "world"       [] s = "Bank" -> "bank"
      [] s = "Kampala," -> "kampala," [] s = "Uganda" -> "uganda"
      [] s = "USAID" -> "usaid"       [] s = "Health" -> "health"
      [] s = "Manager" -> "manager"   [] s = "Remote" -> "remote"
      [] s = "Finance" -> "finance"   [] s = "Officer" -> "officer"
      [] s = "Paris," -> "paris,"     [] s = "France" -> "france"
      [] s = "Lead" -> "lead"         [] s = "None" -> "none"
      [] s = "Oxfam" -> "oxfam"       [] s = "USD" -> "usd"
      [] s = "Years" -> "years"       [] s = "EUR" -> "eur"
      [] OTHER -> s

\* str.lower() on a text.
Lower(t) == [i \in 1..Len(t) |-> [t[i] EXCEPT !.s = LowerWord(t[i].s)]]

\* The spellings of a text's tokens (a number is spelled "#": no word of the
\* alphabet contains a digit).
Spell(t) == [i \in 1..Len(t) |-> t[i].s]

\* a is a proper substring / prefix / suffix of b, for the lower-case words of
\* the alphabet.
ProperInfix ==
    {<<"month", "monthly">>, <<"year", "years">>, <<"yr", "yrs">>,
     <<"per", "experience">>, <<"nairobi", "nairobi,">>,
     <<"kampala", "kampala,">>, <<"paris", "paris,">>,
     <<"pa", "paris,">>, <<"pa", "kampala,">>, <<"lead", "leader">>,
     <<"dollar", "dollars">>, <<"eur", "euros">>, <<"euro", "euros">>}
ProperPrefix ==
    {<<"month", "monthly">>, <<"year", "years">>, <<"yr", "yrs">>,
     <<"nairobi", "nairobi,">>, <<"kampala", "kampala,">>,
     <<"paris", "paris,">>, <<"pa", "paris,">>, <<"lead", "leader">>,
     <<"dollar", "dollars">>, <<"eur", "euros">>, <<"euro", "euros">>}
ProperSuffix == {}

Infix(a, b) == a = b \/ <<a, b>> \in ProperInfix
Prefix(a, b) == a = b \/ <<a, b>> \in ProperPrefix
Suffix(a, b) == a = b \/ <<a, b>> \in ProperSuffix

\* Python's `p in t` for strings p and t given as spellings: the phrase p,
\* its words joined by single blanks, occurs in t at character level.
InText(p, t) ==
    IF Len(p) = 0 THEN TRUE
    ELSE IF Len(p) = 1 THEN \E i \in 1..Len(t) : Infix(p[1], t[i])
    ELSE \E i \in 1..(Len(t) - Len(p) + 1) :
            /\ Suffix(p[1], t[i])
            /\ \A j \in 2..(Len(p) - 1) : p[j] = t[i + j - 1]
            /\ Prefix(p[Len(p)], t[i + Len(p) - 1])

\* Sum and extrema of a sequence of integers.
RECURSIVE SumSeq(_)
SumSeq(s) == IF Len(s) = 0 THEN 0 ELSE Head(s) + SumSeq(Tail(s))

Max2(a, b) == IF a >= b THEN a ELSE b
Min2(a, b) == IF a <= b THEN a ELSE b

RECURSIVE MaxSeq(_)
MaxSeq(s) == IF Len(s) = 1 THEN s[1] ELSE Max2(Head(s), MaxSeq(Tail(s)))

RECURSIVE MinSeq(_)
MinSeq(s) == IF Len(s) = 1 THEN s[1] ELSE Min2(Head(s), MinSeq(Tail(s)))

\* Round the rational n/d (n >= 0, d > 0) to the nearest integer, ties to
\* even: Python's round() and the format ",.0f".
RoundHalfEven(n, d) ==
    LET q == n \div d
        r == n % d
    IN  IF 2 * r < d THEN q
        ELSE IF 2 * r > d THEN q + 1
        ELSE IF q % 2 = 0 THEN q ELSE q + 1

(***************************************************************************)
(* Configuration (src/config.py)                                           *)
(***************************************************************************)

SCORE_THRESHOLD_HIGH == 70
SCORE_THRESHOLD_LOW == 50
MIN_SALARY_USD == 3000

\* The weights, in hundredths (0.30 = 30).
SCORING_WEIGHTS ==
    [title_match |-> 30, location_match |-> 20, skills_overlap |-> 25,
     experience_fit |-> 15, donor_match |-> 10]

\* The location table in its iteration (insertion) order; scores in points.
LOCATION_SCORES ==
    << <<(<<"ethiopia">>), 100>>, <<(<<"addis", "ababa">>), 100>>,
       <<(<<"kenya">>), 90>>, <<(<<"nairobi">>), 90>>,
       <<(<<"east", "africa">>), 80>>, <<(<<"africa">>), 70>>,
       <<(<<"remote">>), 70>>, <<(<<"global">>), 60>> >>

\* x points in the unit of the sub-scores, 1/3000 point.
Pts(x) == 3000 * x

(***************************************************************************)
(* Sub-scores (JobScorer, src/matcher/scorer.py)                           *)
(***************************************************************************)

\* A loop body whose exact match asks for the title to be the role, not to
\* contain it.
RoleScoreWholeTitle(role, title_lower) ==
    LET role_words == Spell(Lower(role))
        matching ==
            Cardinality({i \in 1..Len(role_words) :
                            InText(<<role_words[i]>>, title_lower)})
    IN  IF role_words = title_lower THEN Pts(100)
        ELSE IF matching = Len(role_words) THEN Pts(90)
        ELSE IF matching > 0 THEN (matching * Pts(80)) \div Len(role_words)
        ELSE 0

\* The score one role contributes in _score_title_match's loop body, in
\* units: 100 for the phrase, 90 for all its words, else the share of
\* its words found in the title times 80 (0 when none is).
RoleScore(role, title_lower) ==
    LET role_words == Spell(Lower(role))
        matching ==
            Cardinality({i \in 1..Len(role_words) :
                            InText(<<role_words[i]>>, title_lower)})
    IN  IF InText(role_words, title_lower) THEN Pts(100)
        ELSE IF matching = Len(role_words) THEN Pts(90)
        ELSE IF matching > 0 THEN (matching * Pts(80)) \div Len(role_words)
        ELSE 0

\* The loop of _score_title_match over target_roles, from role number i with
\* best_score so far: an exact match returns 100 at once.
RECURSIVE TitleLoop(_, _, _, _)
TitleLoop(roles, i, title_lower, best_score) ==
    IF i > Len(roles) THEN best_score
    ELSE LET sc == RoleScore(roles[i], title_lower)
         IN  IF sc = Pts(100) THEN -1
             ELSE TitleLoop(roles, i + 1, title_lower, Max2(best_score, sc))

leadership_terms == <<"director", "head", "chief", "lead", "senior", "manager">>

\* A title match whose leadership floor applies only when no role matched
\* at all.
ScoreTitleFloorWhenZero(profile, title) ==
    LET title_lower == Spell(Lower(title))
        best == TitleLoop(profile.target_roles, 1, title_lower, 0)
    IN  IF best = -1 THEN Pts(100)
        ELSE IF /\ best = 0
                /\ \E k \in 1..Len(leadership_terms) :
                      InText(<<leadership_terms[k]>>, title_lower)
             THEN Pts(50)
             ELSE best

\* _score_title_match(title): in units.  The title is not None here
\* (title.lower() raises on None: see TitleRaises).
score_title_match(profile, title) ==
    LET title_lower == Spell(Lower(title))
        best == TitleLoop(profile.target_roles, 1, title_lower, 0)
    IN  IF best = -1 THEN Pts(100)
        ELSE IF \E k \in 1..Len(leadership_terms) :
                    InText(<<leadership_terms[k]>>, title_lower)
             THEN Max2(best, Pts(50))
             ELSE best

\* title.lower() raises AttributeError when the title is None.
TitleRaises(title) == title = Null

\* The first entry of the location table, from entry i, whose key occurs in
\* the location; 0 when there is none.
RECURSIVE FirstTableMatch(_, _)
FirstTableMatch(i, location_lower) ==
    IF i > Len(LOCATION_SCORES) THEN 0
    ELSE IF InText(LOCATION_SCORES[i][1], location_lower) THEN i
    ELSE FirstTableMatch(i + 1, location_lower)

\* A location match without the branch for an unknown location: an empty
\* location runs through the table and the target locations.
ScoreLocationNoUnknown(profile, location) ==
    LET location_lower == Spell(Lower(OrEmpty(location)))
        hit == FirstTableMatch(1, location_lower)
    IN  IF hit > 0 THEN Pts(LOCATION_SCORES[hit][2])
        ELSE IF \E k \in 1..Len(profile.target_locations) :
                   InText(Spell(Lower(profile.target_locations[k])),
                          location_lower)
             THEN Pts(90)
             ELSE Pts(30)

\* A location match that consults the profile's target locations before the
\* table.
ScoreLocationTargetsFirst(profile, location) ==
    IF ~Truthy(location) THEN Pts(40)
    ELSE LET location_lower == Spell(Lower(location))
             hit == FirstTableMatch(1, location_lower)
         IN  IF \E k \in 1..Len(profile.target_locations) :
                    InText(Spell(Lower(profile.target_locations[k])),
                           location_lower)
             THEN Pts(90)
             ELSE IF hit > 0 THEN Pts(LOCATION_SCORES[hit][2])
             ELSE Pts(30)

\* _score_location_match(location).
score_location_match(profile, location) ==
    IF ~Truthy(location) THEN Pts(40)
    ELSE LET location_lower == Spell(Lower(location))
             hit == FirstTableMatch(1, location_lower)
         IN  IF hit > 0 THEN Pts(LOCATION_SCORES[hit][2])
             ELSE IF \E k \in 1..Len(profile.target_locations) :
                        InText(Spell(Lower(profile.target_locations[k])),
                               location_lower)
                  THEN Pts(90)
                  ELSE Pts(30)

(***************************************************************************)
(* The TF-IDF vectorizer as JobScorer uses it: TfidfVectorizer(            *)
(* stop_words="english", ngram_range=(1, 2)) fitted on ONE document, so    *)
(* that every idf is ln(2/2) + 1 = 1 and a vector is the term counts.      *)
(***************************************************************************)

\* The words of the alphabet that are in the English stop-word list.
StopWords == {"per", "and", "of", "the", "in", "for", "with", "none"}

\* The words of the alphabet that hold no run of two word characters.
Symbols == {"$", "-", "+", "/", "~", ","}

\* The analyzer: lower-case, keep the tokens of two or more word characters
\* (a number below 10 is a single digit), drop the stop words.
RECURSIVE Analyze(_)
Analyze(t) ==
    IF Len(t) = 0 THEN <<>>
    ELSE LET tok == Head(t)
             w == LowerWord(tok.s)
             keep == IF tok.k = "n" THEN tok.v >= 10
                     ELSE w \notin Symbols /\ w \notin StopWords
         IN  (IF keep THEN <<w>> ELSE <<>>) \o Analyze(Tail(t))

\* The unigrams and bigrams of a token list, as a set of terms.
NGrams(toks) ==
    {<<toks[i]>> : i \in 1..Len(toks)}
        \cup {<<toks[i], toks[i + 1]>> : i \in 1..(Len(toks) - 1)}

\* How often the term g occurs in the token list.
TermCount(g, toks) ==
    Cardinality({i \in 1..(Len(toks) - Len(g) + 1) :
                    SubSeq(toks, i, i + Len(g) - 1) = g})

\* CVProfile.get_skills_text().
RECURSIVE RoleParts(_)
RoleParts(roles) ==
    IF Len(roles) = 0 THEN <<>>
    ELSE Head(roles) \o T(<<"experience">>) \o RoleParts(Tail(roles))

RECURSIVE Join(_)
Join(parts) == IF Len(parts) = 0 THEN <<>> ELSE Head(parts) \o Join(Tail(parts))

get_skills_text(profile) ==
    Join(profile.skills) \o Join(profile.sectors)
        \o Join(profile.donors_experience) \o RoleParts(profile.target_roles)
        \o Join(profile.keywords_boost)

\* vectorizer.fit([text]): the vocabulary; fit raises ValueError ("empty
\* vocabulary") when it is empty.
FitVocabulary(text) == NGrams(Analyze(text))

\* vectorizer.transform([text]) against a vocabulary: a sparse row, the
\* count of each vocabulary term that occurs in the text.
Transform(vocabulary, text) ==
    LET toks == Analyze(text)
    IN  [g \in vocabulary \cap NGrams(toks) |-> TermCount(g, toks)]

\* Sum of f[x] * g[x] over the set S.
RECURSIVE SumProducts(_, _, _)
SumProducts(S, f, g) ==
    IF S = {} THEN 0
    ELSE LET x == CHOOSE y \in S : TRUE
         IN  f[x] * g[x] + SumProducts(S \ {x}, f, g)

\* The dot product of two sparse rows.
Dot(f, g) == SumProducts(DOMAIN f \cap DOMAIN g, f, g)

\* The largest s in lo..hi with s * s * b <= a (lo satisfies it).
RECURSIVE FloorRoot(_, _, _, _)
FloorRoot(lo, hi, a, b) ==
    IF lo >= hi THEN lo
    ELSE LET mid == (lo + hi + 1) \div 2
         IN  IF mid * mid * b <= a THEN FloorRoot(mid, hi, a, b)
             ELSE FloorRoot(lo, mid - 1, a, b)

\* The next decimal digit of a square root: the largest d in 0..9 with
\* (20 * s * d + d * d) * b <= rem100, searched downwards from d.
RECURSIVE RootDigit(_, _, _, _)
RootDigit(d, s, rem100, b) ==
    IF d = 0 \/ (20 * s * d + d * d) * b <= rem100 THEN d
    ELSE RootDigit(d - 1, s, rem100, b)

\* One more decimal digit of the root s of a / b, whose remainder
\* a - s * s * b is rem: the root and the remainder at ten times the scale.
RefineRoot(r, b) ==
    LET d == RootDigit(9, r.s, 100 * r.rem, b)
    IN  [s |-> 10 * r.s + d,
         rem |-> 100 * r.rem - (20 * r.s * d + d * d) * b]

\* The boosted similarity without the cap of 100: similarity * 150 alone.
BoostedSimilarityUncapped(profile_vector, job_vector) ==
    LET dot == Dot(profile_vector, job_vector)
        pp == Dot(profile_vector, profile_vector)
        dd == Dot(job_vector, job_vector)
        a == (1500 * dot) * (1500 * dot)
        tenths == FloorRoot(0, 1500, a, pp * dd)
    IN  IF dot = 0 THEN 0
        ELSE RefineRoot(
                 RefineRoot([s |-> tenths,
                             rem |-> a - tenths * tenths * pp * dd],
                            pp * dd),
                 pp * dd).s

\* min(100, cosine_similarity(profile_vector, job_vector) * 150), in
\* thousandths of a point, truncated: 150 * dot / sqrt(pp * dd), by its
\* tenths and two further digits.  A zero job vector has similarity 0.
BoostedSimilarity(profile_vector, job_vector) ==
    LET dot == Dot(profile_vector, job_vector)
        pp == Dot(profile_vector, profile_vector)
        dd == Dot(job_vector, job_vector)
        a == (1500 * dot) * (1500 * dot)
        tenths == FloorRoot(0, 1000, a, pp * dd)
    IN  IF dot = 0 THEN 0
        ELSE IF tenths = 1000 THEN 100000
        ELSE RefineRoot(
                 RefineRoot([s |-> tenths,
                             rem |-> a - tenths * tenths * pp * dd],
                            pp * dd),
                 pp * dd).s

\* _score_skills_overlap(description) for a fitted scorer.
score_skills_overlap(scorer, description) ==
    IF ~Truthy(description) THEN Pts(30)
    ELSE 3 * BoostedSimilarity(scorer.profile_vector,
                               Transform(scorer.vocabulary, description))

(***************************************************************************)
(* Experience and donor sub-scores                                         *)
(***************************************************************************)

\* The token at position i of t is a word starting with "year" or "yr".
YearWordAt(t, i) ==
    /\ i <= Len(t)
    /\ t[i].k = "w"
    /\ (Prefix("year", t[i].s) \/ Prefix("yr", t[i].s))

\* re.findall(r"(\d+)\+?\s*(?:years?|yrs?)", text): the numbers directly
\* followed, after an optional "+", by a year word.  \d+ captures the digits
\* after the last thousands separator.
RECURSIVE FindYears(_, _)
FindYears(t, i) ==
    IF i > Len(t) THEN <<>>
    ELSE IF /\ t[i].k = "n"
            /\ \/ YearWordAt(t, i + 1)
               \/ (i + 1 <= Len(t) /\ t[i + 1].s = "+" /\ YearWordAt(t, i + 2))
         THEN <<t[i].v % 1000>> \o FindYears(t, i + 1)
         ELSE FindYears(t, i + 1)

\* An experience fit whose grace above the highest requirement is 5 years.
ExperienceFitWideGrace(profile, job) ==
    LET exp_text_lower ==
            Lower(OrEmpty(job.experience_required) \o OrEmpty(job.description))
        required_years == FindYears(exp_text_lower, 1)
        my_years == profile.years_experience
    IN  IF Len(required_years) = 0 THEN Pts(70)
        ELSE LET min_years == MinSeq(required_years)
                 max_years == MaxSeq(required_years)
             IN  IF min_years <= my_years /\ my_years <= max_years + 5
                 THEN Pts(100)
                 ELSE IF my_years >= min_years - 2 THEN Pts(80)
                 ELSE IF my_years < min_years - 2 THEN Pts(40)
                 ELSE Pts(60)

\* An experience fit that gives 60 to a candidate beyond the grace above the
\* highest requirement.
ExperienceFitOverQualified60(profile, job) ==
    LET exp_text_lower ==
            Lower(OrEmpty(job.experience_required) \o OrEmpty(job.description))
        required_years == FindYears(exp_text_lower, 1)
        my_years == profile.years_experience
    IN  IF Len(required_years) = 0 THEN Pts(70)
        ELSE LET min_years == MinSeq(required_years)
                 max_years == MaxSeq(required_years)
             IN  IF min_years <= my_years /\ my_years <= max_years + 2
                 THEN Pts(100)
                 ELSE IF my_years > max_years + 2 THEN Pts(60)
                 ELSE IF my_years >= min_years - 2 THEN Pts(80)
                 ELSE Pts(40)

\* _score_experience_fit(job).
score_experience_fit(profile, job) ==
    LET exp_text_lower ==
            Lower(OrEmpty(job.experience_required) \o OrEmpty(job.description))
        required_years == FindYears(exp_text_lower, 1)
        my_years == profile.years_experience
    IN  IF Len(required_years) = 0 THEN Pts(70)
        ELSE LET min_years == MinSeq(required_years)
                 max_years == MaxSeq(required_years)
             IN  IF min_years <= my_years /\ my_years <= max_years + 2
                 THEN Pts(100)
                 ELSE IF my_years >= min_years - 2 THEN Pts(80)
                 ELSE IF my_years < min_years - 2 THEN Pts(40)
                 ELSE Pts(60)

\* _score_donor_match(description, organization): one count
\* per entry of donors_experience found in the text.
score_donor_match(profile, description, organization) ==
    LET text == Spell(Lower(Str(description) \o Str(organization)))
        donors == profile.donors_experience
        matched_donors ==
            Cardinality({k \in 1..Len(donors) :
                            InText(Spell(Lower(donors[k])), text)})
    IN  IF matched_donors >= 2 THEN Pts(100)
        ELSE IF matched_donors = 1 THEN Pts(70)
        ELSE Pts(30)

(***************************************************************************)
(* score_job                                                               *)
(***************************************************************************)

\* The five sub-scores of score_job, in units of 1/3000 point.
SubScores(scorer, job) ==
    [title |-> score_title_match(scorer.profile, job.title),
     location |-> score_location_match(scorer.profile, job.location),
     skills |-> score_skills_overlap(scorer, job.description),
     experience |-> score_experience_fit(scorer.profile, job),
     donor |-> score_donor_match(scorer.profile, job.description,
                                 job.organization)]

\* The weighted sum of score_job rounded to one decimal, in tenths.
WeightedScore(scores) ==
    RoundHalfEven(
        scores.title * SCORING_WEIGHTS.title_match
            + scores.location * SCORING_WEIGHTS.location_match
            + scores.skills * SCORING_WEIGHTS.skills_overlap
            + scores.experience * SCORING_WEIGHTS.experience_fit
            + scores.donor * SCORING_WEIGHTS.donor_match,
        30000)

\* score_job(job) for a job whose title is a string: in tenths of a point.
score_job(scorer, job) == WeightedScore(SubScores(scorer, job))

(***************************************************************************)
(* Salary extraction and policy                                            *)
(***************************************************************************)

\* _extract_salary's result when no salary is found (None).
NoSalary == -1

\* The pattern list of _extract_salary, by list index 0..5: the currency
\* marker before or after the amount, and the qualifier that may (month) or
\* must (year) follow.
patterns ==
    << [side |-> "pre",  marks |-> {"$", "usd"},        period |-> "month"],
       [side |-> "post", marks |-> {"usd", "dollar"},   period |-> "month"],
       [side |-> "pre",  marks |-> {"€", "eur"},        period |-> "month"],
       [side |-> "post", marks |-> {"eur", "euro"},     period |-> "month"],
       [side |-> "pre",  marks |-> {"$", "usd"},        period |-> "year"],
       [side |-> "post", marks |-> {"usd", "dollar"},   period |-> "year"] >>

\* The token at position i can be matched by [\d,]+ : a number, or a lone
\* comma (which float() then rejects).
AmountAt(t, i) == i <= Len(t) /\ (t[i].k = "n" \/ t[i].s = ",")

\* The number of tokens the qualifier of the given period takes at position
\* q: per month, / month, monthly, pm; per year, per annum, / year, / annum,
\* annually, pa.  0 when there is none.
QualifierLen(period, t, q) ==
    IF q > Len(t) \/ t[q].k # "w" THEN 0
    ELSE IF /\ t[q].s \in {"per", "/"}
            /\ q + 1 <= Len(t)
            /\ t[q + 1].k = "w"
            /\ IF period = "month" THEN Prefix("month", t[q + 1].s)
               ELSE Prefix("year", t[q + 1].s) \/ Prefix("annum", t[q + 1].s)
         THEN 2
    ELSE IF IF period = "month"
            THEN Prefix("monthly", t[q].s) \/ Prefix("pm", t[q].s)
            ELSE Prefix("annually", t[q].s) \/ Prefix("pa", t[q].s)
         THEN 1
    ELSE 0

\* The match of pattern pat starting at token p: the number of tokens it
\* takes (0: no match) and the position of the captured amount.
MatchAt(pat, t, p) ==
    LET amt == IF pat.side = "pre" THEN p + 1 ELSE p
        mark == IF pat.side = "pre" THEN p ELSE p + 1
        marked ==
            /\ mark <= Len(t)
            /\ t[mark].k = "w"
            /\ \E c \in pat.marks :
                  IF pat.side = "pre" THEN Suffix(c, t[mark].s)
                  ELSE Prefix(c, t[mark].s)
        qual == QualifierLen(pat.period, t, p + 2)
    IN  IF ~(AmountAt(t, amt) /\ marked) THEN [len |-> 0, at |-> 0]
        ELSE IF pat.period = "year" /\ qual = 0 THEN [len |-> 0, at |-> 0]
        ELSE [len |-> 2 + qual, at |-> amt]

\* re.findall(pattern, text): the captured amounts of the non-overlapping
\* matches, left to right, from token p.
RECURSIVE FindAll(_, _, _)
FindAll(pat, t, p) ==
    IF p > Len(t) THEN <<>>
    ELSE LET m == MatchAt(pat, t, p)
         IN  IF m.len = 0 THEN FindAll(pat, t, p + 1)
             ELSE <<t[m.at]>> \o FindAll(pat, t, p + m.len)

\* The inner loop's body without any conversion of annual amounts to
\* monthly ones.
CandidateNoAnnual(i, match) ==
    IF match.k # "n" THEN NoSalary
    ELSE LET raw == 120 * match.v
             usd == IF i \in {2, 3} THEN (raw * 11) \div 10 ELSE raw
         IN  IF 120 * 500 <= usd /\ usd <= 120 * 50000
             THEN usd ELSE NoSalary

\* The inner loop's body without the band check: every parsed amount is
\* accepted.
CandidateNoBand(i, match) ==
    IF match.k # "n" THEN NoSalary
    ELSE LET raw == 120 * match.v
             usd == IF i \in {2, 3} THEN (raw * 11) \div 10 ELSE raw
         IN  IF i \in {4, 5} \/ usd > 120 * 20000
             THEN usd \div 12 ELSE usd

\* The body of the inner loop of _extract_salary for one match of pattern
\* number i: the monthly amount in 1/120 dollar, or NoSalary when float()
\* raises ValueError or the amount is outside the band 500..50000.
Candidate(i, match) ==
    IF match.k # "n" THEN NoSalary
    ELSE LET raw == 120 * match.v
             usd == IF i \in {2, 3} THEN (raw * 11) \div 10 ELSE raw
             amount == IF i \in {4, 5} \/ usd > 120 * 20000
                       THEN usd \div 12 ELSE usd
         IN  IF 120 * 500 <= amount /\ amount <= 120 * 50000
             THEN amount ELSE NoSalary

\* A scan that tries the amount-then-USD pattern before the USD-then-amount
\* pattern.
RECURSIVE ExtractFromPostFirst(_, _, _, _)
ExtractFromPostFirst(text, i, matches, j) ==
    LET order == <<1, 0, 2, 3, 4, 5>>
        found == FindAll(patterns[order[i + 1] + 1], text, 1)
    IN  IF j > Len(found)
        THEN IF i >= 5 THEN NoSalary
             ELSE ExtractFromPostFirst(text, i + 1, <<>>, 1)
        ELSE LET c == Candidate(order[i + 1], found[j])
             IN  IF c # NoSalary THEN c
                 ELSE ExtractFromPostFirst(text, i, matches, j + 1)

\* The first accepted candidate among the matches of pattern i from match
\* number j on, then of the patterns after it.
RECURSIVE ExtractFrom(_, _, _, _)
ExtractFrom(text, i, matches, j) ==
    IF j > Len(matches)
    THEN IF i >= 5 THEN NoSalary
         ELSE ExtractFrom(text, i + 1, FindAll(patterns[i + 2], text, 1), 1)
    ELSE LET c == Candidate(i, matches[j])
         IN  IF c # NoSalary THEN c
             ELSE ExtractFrom(text, i, matches, j + 1)

\* _extract_salary(job): the monthly amount in 1/120 dollar, or NoSalary.
extract_salary(job) ==
    LET text == Lower(OrEmpty(job.salary) \o OrEmpty(job.description))
    IN  ExtractFrom(text, 0, FindAll(patterns[1], text, 1), 1)

\* f"~${salary:,.0f}/month" (written without blanks).
NormalisedSalary(salary) ==
    <<W("~"), W("$"), N(RoundHalfEven(salary, 120)), W("/"), W("month")>>

\* The salary check with a strict comparison: a salary of exactly
\* MIN_SALARY_USD fails.
MeetsSalaryStrictlyAbove(exclude_no_salary, job) ==
    LET salary == extract_salary(job)
    IN  IF salary # NoSalary
        THEN [ok |-> salary > 120 * MIN_SALARY_USD,
              job |-> [job EXCEPT !.salary = NormalisedSalary(salary)]]
        ELSE [ok |-> ~exclude_no_salary, job |-> job]

\* _meets_salary_requirement(job): the verdict and the job as the call
\* leaves it (its salary field rewritten when a salary was extracted).
meets_salary_requirement(exclude_no_salary, job) ==
    LET salary == extract_salary(job)
    IN  IF salary # NoSalary
        THEN [ok |-> salary >= 120 * MIN_SALARY_USD,
              job |-> [job EXCEPT !.salary = NormalisedSalary(salary)]]
        ELSE [ok |-> ~exclude_no_salary, job |-> job]

(***************************************************************************)
(* Data model and inputs                                                   *)
(***************************************************************************)

\* Job.score before scoring (None).
NoScore == -1

\* Job.generate_id(url, title): the digest of f"{url}:{title}", taken to be
\* injective.
generate_id(url, title) == <<url, Spell(Str(title))>>

\* A Job as a scraper or a caller builds it (src/scrapers/base.py): the
\* fields the matching core reads or writes.
Job(url, title, organization, location, description, salary, experience) ==
    [id |-> generate_id(url, title), url |-> url, title |-> title,
     organization |-> organization, location |-> location,
     description |-> description, salary |-> salary,
     experience_required |-> experience, score |-> NoScore]

\* A CVProfile (src/matcher/profile.py); the list fields hold texts.
CVProfile(roles, locations, years, skills, sectors, donors, boost) ==
    [target_roles |-> roles, target_locations |-> locations,
     years_experience |-> years, skills |-> skills, sectors |-> sectors,
     donors_experience |-> donors, keywords_boost |-> boost]

\* The profiles a run may load: one target role and 8 years; every list
\* empty; a full profile.
Profiles ==
    {CVProfile(<<T(<<"Program", "Director">>)>>, <<>>, 8,
               <<>>, <<>>, <<>>, <<>>),
     CVProfile(<<>>, <<>>, 0, <<>>, <<>>, <<>>, <<>>),
     CVProfile(<<T(<<"Country", "Director">>), T(<<"Program", "Manager">>)>>,
               <<T(<<"Uganda">>)>>, 12,
               <<T(<<"program", "management">>)>>, <<T(<<"health">>)>>,
               <<T(<<"USAID">>), T(<<"World", "Bank">>)>>, <<>>)}

SeniorTitle == T(<<"Senior", "Program", "Director", "-", "East", "Africa">>)

\* The jobs a caller may hand to the scorer.
Catalogue ==
    {Job("u1", SeniorTitle, <<>>, T(<<"Nairobi,", "Kenya">>), <<>>, Null,
         <<N(5), W("-"), N(10), W("years")>>),
     Job("u2", SeniorTitle, <<>>, T(<<"Nairobi,", "Kenya">>), <<>>,
         <<W("$"), N(5000), W("per"), W("month")>>,
         <<N(5), W("-"), N(10), W("years")>>),
     Job("u3", Null, T(<<"Oxfam">>), Null, T(<<"health", "program">>), Null,
         Null),
     Job("u4", T(<<"Country", "Director">>), T(<<"World", "Bank">>),
         T(<<"Kampala,", "Uganda">>),
         <<W("program"), W("management"), N(12), W("years"), W("USAID"),
           W("health")>>,
         <<W("$"), N(300000), W("per"), W("year")>>, Null),
     Job("u5", T(<<"Program", "Manager">>), T(<<"Oxfam">>), T(<<"Remote">>),
         <<>>, <<W("$"), N(35995), W("per"), W("year")>>,
         <<N(10), W("+"), W("years")>>),
     Job("u6", T(<<"Finance", "Officer">>), <<>>, T(<<"Paris,", "France">>),
         <<>>, <<W("$"), N(60000), W("per"), W("year")>>, Null),
     Job("u7", T(<<"Health", "Program", "Lead">>), T(<<"Oxfam">>), <<>>,
         <<W("program"), W("director"), W("experience"), W("usd"),
           N(2000), W("monthly"), W("health"), W("USAID")>>,
         Null, <<N(3), W("years")>>)}

\* The longest list of jobs handed to the scorer.
MaxJobs == 2

\* The lists of at most n catalogue jobs.
RECURSIVE Lists(_)
Lists(n) ==
    IF n = 0 THEN {<<>>}
    ELSE LET shorter == Lists(n - 1)
         IN  shorter \cup {Append(l, j) : l \in shorter, j \in Catalogue}

(***************************************************************************)
(* score_jobs, filter_matches and the ranking of cmd_match                 *)
(***************************************************************************)

\* A loop of score_jobs in which scoring a job refits the vectorizer on that
\* job's description, so that a score depends on the jobs scored before.
RECURSIVE ScoreLoopRefit(_, _, _)
ScoreLoopRefit(scorer, jobs, i) ==
    IF i > Len(jobs) THEN [jobs |-> jobs, raised |-> ""]
    ELSE IF TitleRaises(jobs[i].title)
         THEN [jobs |-> jobs, raised |-> "AttributeError"]
    ELSE ScoreLoopRefit(
             IF Truthy(jobs[i].description)
             THEN [scorer EXCEPT
                     !.vocabulary = FitVocabulary(jobs[i].description)]
             ELSE scorer,
             [jobs EXCEPT ![i].score = score_job(scorer, jobs[i])],
             i + 1)

\* The loop of score_jobs from job i: each job gets its score; the loop ends
\* at the first job whose scoring raises, the exception leaving score_jobs.
RECURSIVE ScoreLoop(_, _, _)
ScoreLoop(scorer, jobs, i) ==
    IF i > Len(jobs) THEN [jobs |-> jobs, raised |-> ""]
    ELSE IF TitleRaises(jobs[i].title)
         THEN [jobs |-> jobs, raised |-> "AttributeError"]
    ELSE ScoreLoop(scorer,
                   [jobs EXCEPT ![i].score = score_job(scorer, jobs[i])],
                   i + 1)

\* score_jobs(jobs): the list as the call leaves it, and the exception that
\* ended it ("" when it returned).
score_jobs(scorer, jobs) == ScoreLoop(scorer, jobs, 1)

\* filter_matches's min_score when the caller passes none (None).
NoMinScore == -1

\* The default threshold taken from SCORE_THRESHOLD_HIGH instead.
EffectiveMinScoreHigh(min_score) ==
    IF min_score = NoMinScore \/ min_score = 0
    THEN 10 * SCORE_THRESHOLD_HIGH ELSE min_score

\* `min_score or config.SCORE_THRESHOLD_LOW`, in tenths: None and 0 are falsy.
EffectiveMinScore(min_score) ==
    IF min_score = NoMinScore \/ min_score = 0
    THEN 10 * SCORE_THRESHOLD_LOW ELSE min_score

\* `job.score or 0`, in tenths.
ScoreOrZero(job) == IF job.score = NoScore THEN 0 ELSE job.score

\* A filter loop that runs the salary check, and with it the rewriting of
\* the salary field, before the score test.
RECURSIVE FilterLoopSalaryFirst(_, _, _, _, _, _)
FilterLoopSalaryFirst(exclude_no_salary, jobs, min_score, i, filtered, log) ==
    IF i > Len(jobs) THEN [jobs |-> jobs, filtered |-> filtered, log |-> log]
    ELSE LET r == meets_salary_requirement(exclude_no_salary, jobs[i])
             after == [jobs EXCEPT ![i] = r.job]
         IN  IF ScoreOrZero(jobs[i]) < min_score
             THEN FilterLoopSalaryFirst(exclude_no_salary, after, min_score,
                                        i + 1, filtered, log)
             ELSE IF ~r.ok
             THEN FilterLoopSalaryFirst(exclude_no_salary, after, min_score,
                                        i + 1, filtered, Append(log, i))
             ELSE FilterLoopSalaryFirst(exclude_no_salary, after, min_score,
                                        i + 1, Append(filtered, i), log)

\* The loop of filter_matches from job i.  filtered holds the positions of
\* the jobs kept (the list returned refers to the very Job objects of the
\* input list); log holds the positions of the jobs a message was printed
\* for.
RECURSIVE FilterLoop(_, _, _, _, _, _)
FilterLoop(exclude_no_salary, jobs, min_score, i, filtered, log) ==
    IF i > Len(jobs) THEN [jobs |-> jobs, filtered |-> filtered, log |-> log]
    ELSE IF ScoreOrZero(jobs[i]) < min_score
         THEN FilterLoop(exclude_no_salary, jobs, min_score, i + 1,
                         filtered, log)
    ELSE LET r == meets_salary_requirement(exclude_no_salary, jobs[i])
             after == [jobs EXCEPT ![i] = r.job]
         IN  IF ~r.ok
             THEN FilterLoop(exclude_no_salary, after, min_score, i + 1,
                             filtered, Append(log, i))
             ELSE FilterLoop(exclude_no_salary, after, min_score, i + 1,
                             Append(filtered, i), log)

\* filter_matches(jobs, min_score).
filter_matches(exclude_no_salary, jobs, min_score) ==
    FilterLoop(exclude_no_salary, jobs, EffectiveMinScore(min_score), 1,
               <<>>, <<>>)

\* An insertion that puts x before the entries of equal key: the sort it
\* gives is descending but reverses the order of equal keys.
RECURSIVE InsertDescUnstable(_, _, _)
InsertDescUnstable(sorted, x, jobs) ==
    IF Len(sorted) = 0 THEN <<x>>
    ELSE IF ScoreOrZero(jobs[Head(sorted)]) > ScoreOrZero(jobs[x])
         THEN <<Head(sorted)>> \o InsertDescUnstable(Tail(sorted), x, jobs)
    ELSE <<x>> \o sorted

\* Insert position x into the list sorted by descending key, behind every
\* entry whose key is not smaller: equal keys keep their order.
RECURSIVE InsertDesc(_, _, _)
InsertDesc(sorted, x, jobs) ==
    IF Len(sorted) = 0 THEN <<x>>
    ELSE IF ScoreOrZero(jobs[Head(sorted)]) >= ScoreOrZero(jobs[x])
         THEN <<Head(sorted)>> \o InsertDesc(Tail(sorted), x, jobs)
    ELSE <<x>> \o sorted

\* matches.sort(key=lambda j: j.score or 0, reverse=True): Python's sort is
\* stable, also with reverse=True.
RECURSIVE SortDesc(_, _)
SortDesc(matches, jobs) ==
    IF Len(matches) = 0 THEN <<>>
    ELSE InsertDesc(SortDesc(SubSeq(matches, 1, Len(matches) - 1), jobs),
                    matches[Len(matches)], jobs)

\* high_matches of cmd_match: the matches scoring SCORE_THRESHOLD_HIGH or
\* more, as positions in jobs.
high_matches(matches, jobs) ==
    LET IsHigh(i) == ScoreOrZero(jobs[i]) >= 10 * SCORE_THRESHOLD_HIGH
    IN  SelectSeq(matches, IsHigh)

\* A bucket of good matches without its upper limit.
GoodMatchesNoUpper(matches, jobs) ==
    LET IsGood(i) == 10 * SCORE_THRESHOLD_LOW <= ScoreOrZero(jobs[i])
    IN  SelectSeq(matches, IsGood)

\* good_matches of cmd_match: the matches scoring from SCORE_THRESHOLD_LOW to
\* below SCORE_THRESHOLD_HIGH.
good_matches(matches, jobs) ==
    LET IsGood(i) ==
            /\ 10 * SCORE_THRESHOLD_LOW <= ScoreOrZero(jobs[i])
            /\ ScoreOrZero(jobs[i]) < 10 * SCORE_THRESHOLD_HIGH
    IN  SelectSeq(matches, IsGood)

(***************************************************************************)
(* The cover-letter loop of generate_for_high_matches                      *)
(***************************************************************************)

MAX_COVER_LETTERS_PER_RUN == 10

\* The longest list of matches handed to generate_for_high_matches.
MaxMatches == 12

\* A job as generate_for_high_matches reads and writes it: its id, its
\* score and its cover_letter_path (None until a letter is saved).
Match(id, score) == [id |-> id, score |-> score, cover_letter_path |-> Null]

\* The lists of at most n matches: every job scores 80.0 except at most one,
\* at any position, which scores 65.0.
MatchLists(n) ==
    {[k \in 1..len |-> Match(k, IF k = low THEN 650 ELSE 800)] :
        len \in 0..n, low \in 0..n}

\* What the calls of generate_and_save meet, as the set of the calls, by
\* number, that return None (no client, or the API call raising): none,
\* every call, the first, the second and third.
Failures(n) == {{}, 1..n, {1}, {2, 3}}

\* str(filepath) of the letter saved for a job: the file in cover_letters
\* named after the job's id.
LetterPath(job) == <<W("cover_letters"), W("/"), N(job.id)>>

\* The loop of generate_for_high_matches from job i, with threshold
\* SCORE_THRESHOLD_HIGH: attempts counts the calls of generate_and_save,
\* generated_count those that returned a path.
RECURSIVE GenerateLoop(_, _, _, _, _, _)
GenerateLoop(jobs, i, generated_count, results, attempts, failing) ==
    IF i > Len(jobs)
    THEN [jobs |-> jobs, results |-> results, attempts |-> attempts]
    ELSE IF ScoreOrZero(jobs[i]) < 10 * SCORE_THRESHOLD_HIGH
    THEN GenerateLoop(jobs, i + 1, generated_count, results, attempts,
                      failing)
    ELSE IF generated_count >= MAX_COVER_LETTERS_PER_RUN
    THEN [jobs |-> jobs, results |-> results, attempts |-> attempts]
    ELSE LET filepath == IF (attempts + 1) \in failing THEN Null
                         ELSE LetterPath(jobs[i])
         IN  IF filepath # Null
             THEN GenerateLoop(
                     [jobs EXCEPT ![i].cover_letter_path = filepath],
                     i + 1, generated_count + 1,
                     Append(results, [job |-> i, filepath |-> filepath]),
                     attempts + 1, failing)
             ELSE GenerateLoop(
                     jobs, i + 1, generated_count,
                     Append(results, [job |-> i, filepath |-> filepath]),
                     attempts + 1, failing)

\* generate_for_high_matches(jobs) without a threshold argument.
generate_for_high_matches(jobs, failing) ==
    GenerateLoop(jobs, 1, 0, <<>>, 0, failing)

(***************************************************************************)
(* State: one process that builds a JobScorer for the loaded profile and   *)
(* uses it on a list of jobs.                                              *)
(***************************************************************************)

VARIABLES
    profile,            \* the CVProfile loaded for the run
    exclude_no_salary,  \* config.EXCLUDE_NO_SALARY
    scorer,             \* the JobScorer instance
    jobs,               \* the list of Job objects the caller holds
    matches,            \* the ranked match list: positions in jobs
    prev_matches,       \* the match list of the pass before
    passes,             \* filter-and-rank passes since the last scoring:
                        \* 0, 1, or 2 for two and more
    log,                \* the jobs the last pass printed a message for
    returned,           \* per job, the values score_job returned for it
                        \* since the job objects were last written
    extracted,          \* the job and the result of the last call, when
                        \* it was a call of _extract_salary
    raised,             \* the exception that ended the last call, or ""
    last,               \* the last operation called
    call,               \* the last call of a sub-score method: the
                        \* method, the job and the value returned
    store,              \* the jobs file (config.JOBS_FILE): its records
    matches_file,       \* the matches file (config.MATCHES_FILE)
    scraped,            \* what the scrapers returned in the last scrape
    command,            \* the last command run from the command line
    min_score,          \* the min_score argument of the last call of
                        \* filter_matches
    run,                \* cmd_run: its position, the stages it has invoked
                        \* and the list cmd_match returned to it
    generation          \* the last call of generate_for_high_matches: the
                        \* jobs as it left them, its results and the
                        \* number of calls of generate_and_save it made

vars == <<profile, exclude_no_salary, scorer, jobs, matches, prev_matches,
          passes, log, returned, extracted, raised, last, call, store,
          matches_file, scraped, command, min_score, run, generation>>

\* The state of the jobs file and of the commands working on it.
cli_vars == <<store, matches_file, scraped, command>>

\* The state of the calls and commands a scorer session has no part in.
aux_vars == <<min_score, run, generation>>

\* No cmd_run under way.
NoRun == [pc |-> "idle", stages |-> <<>>, matches |-> <<>>]

\* generate_for_high_matches has not been called.
NoGeneration ==
    [called |-> FALSE, jobs |-> <<>>, results |-> <<>>, attempts |-> 0]

\* No JobScorer instance.
NoScorer ==
    [state |-> "none",
     profile |-> CVProfile(<<>>, <<>>, 0, <<>>, <<>>, <<>>, <<>>),
     vocabulary |-> {}, profile_vector |-> <<>>]

\* The last call was no call of _extract_salary.
NotExtracted == [job |-> 0, value |-> NoSalary]

\* No sub-score method has been called.
NoCall ==
    [fn |-> "", job |-> Job("", <<>>, <<>>, <<>>, <<>>, Null, Null),
     result |-> NoScore]

Init ==
    /\ profile \in Profiles
    /\ exclude_no_salary \in BOOLEAN
    /\ scorer = NoScorer
    /\ jobs = <<>>
    /\ matches = <<>>
    /\ prev_matches = <<>>
    /\ passes = 0
    /\ log = <<>>
    /\ returned = <<>>
    /\ extracted = NotExtracted
    /\ raised = ""
    /\ last = "start"
    /\ call = NoCall
    /\ store = <<>>
    /\ matches_file = <<>>
    /\ scraped = <<>>
    /\ command = ""
    /\ min_score = NoMinScore
    /\ run = NoRun
    /\ generation = NoGeneration

\* JobScorer(profile): __init__ fits the vectorizer on the profile text and
\* keeps the profile vector; fit raises ValueError on an empty vocabulary
\* and no instance exists then.
NewScorer ==
    /\ scorer.state = "none"
    /\ LET profile_text == get_skills_text(profile)
           vocabulary == FitVocabulary(profile_text)
       IN  IF vocabulary = {}
           THEN /\ raised' = "ValueError"
                /\ scorer' = scorer
           ELSE /\ raised' = ""
                /\ scorer' = [state |-> "ready", profile |-> profile,
                              vocabulary |-> vocabulary,
                              profile_vector |->
                                  Transform(vocabulary, profile_text)]
    /\ last' = "JobScorer"
    /\ extracted' = NotExtracted
    /\ UNCHANGED <<profile, exclude_no_salary, jobs, matches, prev_matches,
                   passes, log, returned>>
    /\ UNCHANGED <<call, cli_vars, aux_vars>>

\* The caller obtains the list of jobs it will score.
TakeJobs(list) ==
    /\ scorer.state = "ready"
    /\ jobs = <<>>
    /\ list # <<>>
    /\ jobs' = list
    /\ returned' = [i \in 1..Len(list) |-> {}]
    /\ extracted' = NotExtracted
    /\ raised' = ""
    /\ last' = "take_jobs"
    /\ UNCHANGED <<profile, exclude_no_salary, scorer, matches, prev_matches,
                   passes, log>>
    /\ UNCHANGED <<call, cli_vars, aux_vars>>

\* The list has not been scored or filtered yet.
Fresh == last \in {"take_jobs", "score_job", "_extract_salary"}

\* A score_job that refits the vectorizer on the description it has just
\* scored, so that the next call depends on this one.
ScoreJobRefit(i) ==
    /\ scorer.state = "ready"
    /\ Fresh
    /\ i \in 1..Len(jobs)
    /\ IF TitleRaises(jobs[i].title)
       THEN /\ raised' = "AttributeError"
            /\ returned' = returned
            /\ scorer' = scorer
       ELSE /\ raised' = ""
            /\ returned' =
                  [returned EXCEPT ![i] = @ \cup {score_job(scorer, jobs[i])}]
            /\ scorer' =
                  IF Truthy(jobs[i].description)
                  THEN [scorer EXCEPT
                          !.vocabulary = FitVocabulary(jobs[i].description)]
                  ELSE scorer
    /\ extracted' = NotExtracted
    /\ last' = "score_job"
    /\ UNCHANGED <<profile, exclude_no_salary, jobs, matches,
                   prev_matches, passes, log>>
    /\ UNCHANGED <<call, cli_vars, aux_vars>>

\* score_job(jobs[i]): the value is returned, nothing is stored; neither the
\* vectorizer nor the profile vector is touched.
ScoreJob(i) ==
    /\ scorer.state = "ready"
    /\ Fresh
    /\ i \in 1..Len(jobs)
    /\ IF TitleRaises(jobs[i].title)
       THEN /\ raised' = "AttributeError"
            /\ returned' = returned
       ELSE /\ raised' = ""
            /\ returned' =
                  [returned EXCEPT ![i] = @ \cup {score_job(scorer, jobs[i])}]
    /\ extracted' = NotExtracted
    /\ last' = "score_job"
    /\ UNCHANGED <<profile, exclude_no_salary, scorer, jobs, matches,
                   prev_matches, passes, log>>
    /\ UNCHANGED <<call, cli_vars, aux_vars>>

\* _extract_salary(jobs[i]): the value is returned, the job is not written.
ExtractSalary(i) ==
    /\ scorer.state = "ready"
    /\ Fresh
    /\ i \in 1..Len(jobs)
    /\ extracted' = [job |-> i, value |-> extract_salary(jobs[i])]
    /\ raised' = ""
    /\ last' = "_extract_salary"
    /\ UNCHANGED <<profile, exclude_no_salary, scorer, jobs, matches,
                   prev_matches, passes, log, returned>>
    /\ UNCHANGED <<call, cli_vars, aux_vars>>

\* score_jobs(jobs).
ScoreJobs ==
    /\ scorer.state = "ready"
    /\ jobs # <<>>
    /\ LET r == score_jobs(scorer, jobs)
       IN  /\ jobs' = r.jobs
           /\ raised' = r.raised
    /\ matches' = <<>>
    /\ prev_matches' = <<>>
    /\ passes' = 0
    /\ log' = <<>>
    /\ returned' = [i \in 1..Len(jobs) |-> {}]
    /\ extracted' = NotExtracted
    /\ last' = "score_jobs"
    /\ UNCHANGED <<profile, exclude_no_salary, scorer>>
    /\ UNCHANGED <<call, cli_vars, aux_vars>>

\* The filter-and-rank step of cmd_match: filter_matches(jobs) with the
\* default threshold, then the descending sort of the list it returned.
FilterAndRank ==
    /\ scorer.state = "ready"
    /\ jobs # <<>>
    /\ LET r == filter_matches(exclude_no_salary, jobs, NoMinScore)
       IN  /\ jobs' = r.jobs
           /\ matches' = SortDesc(r.filtered, r.jobs)
           /\ log' = r.log
    /\ prev_matches' = matches
    /\ passes' = Min2(passes + 1, 2)
    /\ raised' = ""
    /\ returned' = [i \in 1..Len(jobs) |-> {}]
    /\ extracted' = NotExtracted
    /\ last' = "filter_and_rank"
    /\ UNCHANGED <<profile, exclude_no_salary, scorer>>
    /\ UNCHANGED <<call, cli_vars, aux_vars>>

Next ==
    \/ NewScorer
    \/ \E list \in Lists(MaxJobs) : TakeJobs(list)
    \/ \E i \in 1..MaxJobs : ScoreJob(i)
    \/ \E i \in 1..MaxJobs : ExtractSalary(i)
    \/ ScoreJobs
    \/ FilterAndRank

Spec == Init /\ [][Next]_vars

(***************************************************************************)
(* The sub-score methods called one at a time on a fitted scorer           *)
(***************************************************************************)

\* JobScorer(profile) for a profile whose text gives a vocabulary: the
\* instance __init__ leaves.
FittedScorer(p) ==
    LET profile_text == get_skills_text(p)
        vocabulary == FitVocabulary(profile_text)
    IN  [state |-> "ready", profile |-> p, vocabulary |-> vocabulary,
         profile_vector |-> Transform(vocabulary, profile_text)]

\* The profiles the methods are called under: those of Profiles a scorer can
\* be built from; two roles the second of which is the exact one; three
\* target locations; no target role and one donor listed twice, in two
\* spellings; one role of three words.
FnProfiles ==
    {p \in Profiles : FitVocabulary(get_skills_text(p)) # {}}
    \cup
    {CVProfile(<<T(<<"Program", "Manager">>), T(<<"program", "director">>)>>,
               <<>>, 8, <<>>, <<>>, <<>>, <<>>),
     CVProfile(<<T(<<"Country", "Director">>)>>,
               <<T(<<"Uganda">>), T(<<"Remote">>), T(<<"east", "africa">>)>>,
               5, <<>>, <<>>, <<T(<<"Oxfam">>)>>, <<>>),
     CVProfile(<<>>, <<>>, 0, <<T(<<"program", "management">>)>>, <<>>,
               <<T(<<"USAID">>), T(<<"usaid">>)>>, <<>>),
     CVProfile(<<T(<<"Senior", "Program", "Manager">>)>>, <<>>, 1,
               <<>>, <<>>, <<T(<<"World", "Bank">>), T(<<"Oxfam">>),
                             T(<<"USAID">>)>>, <<>>)}

\* The jobs the methods are called on: the catalogue, and three more titles
\* and locations.
FnJobs ==
    Catalogue
    \cup
    {Job("u8", T(<<"Senior", "Program", "Officer">>), T(<<"USAID">>),
         T(<<"East", "Africa">>), T(<<"World", "Bank", "health">>), Null,
         <<N(2), W("-"), N(4), W("yrs")>>),
     Job("u9", T(<<"Program", "Finance", "Director">>), T(<<"Oxfam">>),
         T(<<"Remote">>), Null, Null, <<N(7), W("Years")>>),
     Job("u10", T(<<"Finance", "Manager">>), Null,
         T(<<"Kampala,", "Uganda">>),
         <<W("USAID"), W("USAID"), N(6), W("yrs")>>, Null,
         <<N(3), W("+"), W("years")>>)}

InitFn ==
    /\ profile \in FnProfiles
    /\ exclude_no_salary = FALSE
    /\ scorer = FittedScorer(profile)
    /\ jobs = <<>>
    /\ matches = <<>>
    /\ prev_matches = <<>>
    /\ passes = 0
    /\ log = <<>>
    /\ returned = <<>>
    /\ extracted = NotExtracted
    /\ raised = ""
    /\ last = "JobScorer"
    /\ call = NoCall
    /\ store = <<>>
    /\ matches_file = <<>>
    /\ scraped = <<>>
    /\ command = ""
    /\ min_score = NoMinScore
    /\ run = NoRun
    /\ generation = NoGeneration

\* What a call of a sub-score method leaves alone: everything but the record
\* of the call.
FnFrame ==
    UNCHANGED <<profile, exclude_no_salary, scorer, jobs, matches,
                prev_matches, passes, log, returned, extracted, cli_vars,
                aux_vars>>

\* _score_title_match(job.title).
ScoreTitleMatch(job) ==
    /\ IF TitleRaises(job.title)
       THEN /\ raised' = "AttributeError"
            /\ call' = [fn |-> "_score_title_match", job |-> job,
                        result |-> NoScore]
       ELSE /\ raised' = ""
            /\ call' = [fn |-> "_score_title_match", job |-> job,
                        result |->
                            score_title_match(scorer.profile, job.title)]
    /\ last' = "_score_title_match"
    /\ FnFrame

\* _score_location_match(job.location).
ScoreLocationMatch(job) ==
    /\ call' = [fn |-> "_score_location_match", job |-> job,
                result |->
                    score_location_match(scorer.profile, job.location)]
    /\ raised' = ""
    /\ last' = "_score_location_match"
    /\ FnFrame

\* _score_experience_fit(job).
ScoreExperienceFit(job) ==
    /\ call' = [fn |-> "_score_experience_fit", job |-> job,
                result |-> score_experience_fit(scorer.profile, job)]
    /\ raised' = ""
    /\ last' = "_score_experience_fit"
    /\ FnFrame

\* _score_donor_match(job.description, job.organization).
ScoreDonorMatch(job) ==
    /\ call' = [fn |-> "_score_donor_match", job |-> job,
                result |->
                    score_donor_match(scorer.profile, job.description,
                                      job.organization)]
    /\ raised' = ""
    /\ last' = "_score_donor_match"
    /\ FnFrame

\* A job whose salary and description fields hold the given texts.
Advert(url, salary, description) ==
    Job(url, T(<<"Program", "Manager">>), Null, Null, description, salary,
        Null)

\* The jobs _extract_salary is called on: one amount with a per-year
\* qualifier, at most and above 20000; amounts in EUR around the 20000
\* mark; a candidate outside the band before one inside it; a match of a
\* later pattern before a match of an earlier one; amounts in both fields,
\* and in the description only; no acceptable amount; a comma that is no
\* number.
SalaryJobs ==
    {Advert("s1", <<W("$"), N(12000), W("per"), W("year")>>, Null),
     Advert("s2", <<W("$"), N(60000), W("per"), W("year")>>, Null),
     Advert("s3", <<W("EUR"), N(19000)>>, Null),
     Advert("s4", <<W("EUR"), N(4000)>>, Null),
     Advert("s5", <<W("$"), N(100), W("$"), N(4000)>>, Null),
     Advert("s6", <<N(3500), W("USD"), W("$"), N(4000)>>, Null),
     Advert("s7", <<N(5000), W("dollars")>>, <<W("$"), N(3000)>>),
     Advert("s8", <<W("$"), N(4000)>>, <<W("$"), N(6000)>>),
     Advert("s9", <<W("$"), N(100)>>, Null),
     Advert("s10", <<W("USD"), N(12000), W("annually")>>, Null),
     Advert("s11", Null, <<W("$"), N(6000)>>),
     Advert("s12", <<N(24000), W("eur")>>, Null),
     Advert("s13", <<N(4000), W("euros"), W("$"), N(100)>>, Null),
     Advert("s14", <<W("$"), N(900000)>>, Null),
     Advert("s15", <<W("$"), W(","), W("$"), N(4000)>>, Null),
     Advert("s16", <<W("EUR"), N(30000)>>, Null)}

\* _extract_salary(job).
CallExtractSalary(job) ==
    /\ call' = [fn |-> "_extract_salary", job |-> job,
                result |-> extract_salary(job)]
    /\ raised' = ""
    /\ last' = "_extract_salary"
    /\ FnFrame

NextFn ==
    \/ \E job \in FnJobs : ScoreTitleMatch(job)
    \/ \E job \in FnJobs : ScoreLocationMatch(job)
    \/ \E job \in FnJobs : ScoreExperienceFit(job)
    \/ \E job \in FnJobs : ScoreDonorMatch(job)
    \/ \E job \in SalaryJobs : CallExtractSalary(job)

SpecFn == InitFn /\ [][NextFn]_vars

(***************************************************************************)
(* The commands scrape and match of src/main.py on the jobs file           *)
(***************************************************************************)

\* The postings the scrapers may return: every scraper builds its jobs with
\* a title and a url and with id = Job.generate_id(url, title).  Two of the
\* postings share url and title and differ in their description.
Postings ==
    {j \in Catalogue : j.url \in {"u1", "u5", "u6"}}
    \cup
    {Job("u1", SeniorTitle, T(<<"Oxfam">>), T(<<"Nairobi,", "Kenya">>),
         T(<<"health", "program">>), Null,
         <<N(5), W("-"), N(10), W("years")>>)}

\* The most jobs all scrapers together return in one scrape.
MaxScraped == 2

\* The lists of at most n postings: all_jobs of cmd_scrape, the scrapers'
\* lists one after the other.
RECURSIVE ScrapeRuns(_)
ScrapeRuns(n) ==
    IF n = 0 THEN {<<>>}
    ELSE LET shorter == ScrapeRuns(n - 1)
         IN  shorter \cup {Append(l, j) : l \in shorter, j \in Postings}

\* A deduplication loop that compares with the stored ids only: it does not
\* add the id of a job it keeps to existing_ids.
RECURSIVE DeduplicateStoredOnly(_, _, _, _)
DeduplicateStoredOnly(all_jobs, i, existing_ids, new_jobs) ==
    IF i > Len(all_jobs) THEN new_jobs
    ELSE IF all_jobs[i].id \notin existing_ids
         THEN DeduplicateStoredOnly(all_jobs, i + 1, existing_ids,
                                    Append(new_jobs, all_jobs[i]))
    ELSE DeduplicateStoredOnly(all_jobs, i + 1, existing_ids, new_jobs)

\* The deduplication loop of cmd_scrape from job i of all_jobs: new_jobs.
RECURSIVE Deduplicate(_, _, _, _)
Deduplicate(all_jobs, i, existing_ids, new_jobs) ==
    IF i > Len(all_jobs) THEN new_jobs
    ELSE IF all_jobs[i].id \notin existing_ids
         THEN Deduplicate(all_jobs, i + 1,
                          existing_ids \cup {all_jobs[i].id},
                          Append(new_jobs, all_jobs[i]))
    ELSE Deduplicate(all_jobs, i + 1, existing_ids, new_jobs)

\* The jobs at the positions given, in that order.
JobsAt(positions, list) == [k \in 1..Len(positions) |-> list[positions[k]]]

InitCli ==
    /\ profile \in Profiles
    /\ exclude_no_salary = FALSE
    /\ scorer = NoScorer
    /\ jobs = <<>>
    /\ matches = <<>>
    /\ prev_matches = <<>>
    /\ passes = 0
    /\ log = <<>>
    /\ returned = <<>>
    /\ extracted = NotExtracted
    /\ raised = ""
    /\ last = "start"
    /\ call = NoCall
    /\ store = <<>>
    /\ matches_file = <<>>
    /\ scraped = <<>>
    /\ command = ""
    /\ min_score = NoMinScore
    /\ run = NoRun
    /\ generation = NoGeneration

\* What a command leaves alone: the configuration, and the state of the
\* scorer sessions, which a command does not share (each command is a
\* process of its own and keeps nothing in memory).
CliFrame ==
    UNCHANGED <<profile, exclude_no_salary, scorer, jobs, matches,
                prev_matches, passes, log, returned, extracted, last, call,
                aux_vars>>

\* A cmd_scrape in which the last write wins: a stored job is replaced by
\* the last scraped job of the same id.
CmdScrapeLastWins(all_jobs) ==
    /\ LET existing_jobs == store
           existing_ids == {existing_jobs[i].id : i \in 1..Len(existing_jobs)}
           new_jobs == Deduplicate(all_jobs, 1, existing_ids, <<>>)
           same(i) == {k \in 1..Len(all_jobs) :
                          all_jobs[k].id = existing_jobs[i].id}
           latest(i) == CHOOSE k \in same(i) : \A m \in same(i) : m <= k
       IN  store' = [i \in 1..Len(existing_jobs) |->
                        IF same(i) = {} THEN existing_jobs[i]
                        ELSE all_jobs[latest(i)]] \o new_jobs
    /\ scraped' = all_jobs
    /\ raised' = ""
    /\ command' = "scrape"
    /\ UNCHANGED matches_file
    /\ CliFrame

\* cmd_scrape(), the scrapers having returned all_jobs.
CmdScrape(all_jobs) ==
    /\ LET existing_jobs == store
           existing_ids == {existing_jobs[i].id : i \in 1..Len(existing_jobs)}
           new_jobs == Deduplicate(all_jobs, 1, existing_ids, <<>>)
       IN  store' = existing_jobs \o new_jobs
    /\ scraped' = all_jobs
    /\ raised' = ""
    /\ command' = "scrape"
    /\ UNCHANGED matches_file
    /\ CliFrame

\* cmd_match(): nothing is written when the jobs file is empty; JobScorer()
\* or score_jobs raising ends the command before anything is saved.
CmdMatch ==
    /\ IF store = <<>>
       THEN /\ raised' = ""
            /\ UNCHANGED <<store, matches_file>>
       ELSE IF FitVocabulary(get_skills_text(profile)) = {}
       THEN /\ raised' = "ValueError"
            /\ UNCHANGED <<store, matches_file>>
       ELSE LET the_scorer == FittedScorer(profile)
                scored == score_jobs(the_scorer, store)
                r == filter_matches(exclude_no_salary, scored.jobs,
                                    NoMinScore)
            IN  IF scored.raised # ""
                THEN /\ raised' = scored.raised
                     /\ UNCHANGED <<store, matches_file>>
                ELSE /\ raised' = ""
                     /\ store' = scored.jobs
                     /\ matches_file' =
                           JobsAt(SortDesc(r.filtered, r.jobs), r.jobs)
    /\ scraped' = <<>>
    /\ command' = "match"
    /\ CliFrame

NextCli ==
    \/ \E all_jobs \in ScrapeRuns(MaxScraped) : CmdScrape(all_jobs)
    \/ CmdMatch

SpecCli == InitCli /\ [][NextCli]_vars

(***************************************************************************)
(* cmd_run: the full pipeline, and the commands generate and notify        *)
(***************************************************************************)

\* A matches file left by an earlier session: one match.
OldMatches ==
    <<[Job("u1", SeniorTitle, T(<<"Oxfam">>), T(<<"Nairobi,", "Kenya">>),
           T(<<"health", "program">>), Null, Null) EXCEPT !.score = 800]>>

\* No jobs file; no matches file, or one an earlier session left.
InitRun ==
    /\ profile \in Profiles
    /\ exclude_no_salary = FALSE
    /\ scorer = NoScorer
    /\ jobs = <<>>
    /\ matches = <<>>
    /\ prev_matches = <<>>
    /\ passes = 0
    /\ log = <<>>
    /\ returned = <<>>
    /\ extracted = NotExtracted
    /\ raised = ""
    /\ last = "start"
    /\ call = NoCall
    /\ store = <<>>
    /\ matches_file \in {<<>>, OldMatches}
    /\ scraped = <<>>
    /\ command = ""
    /\ min_score = NoMinScore
    /\ run = NoRun
    /\ generation = NoGeneration

\* What the commands leave alone.
RunFrame ==
    UNCHANGED <<profile, exclude_no_salary, scorer, jobs, matches,
                prev_matches, passes, log, returned, extracted, last, call,
                min_score, generation>>

\* cmd_run() is called: `python main.py run`.
StartRun ==
    /\ run.pc = "idle"
    /\ run' = [pc |-> "scrape", stages |-> <<>>, matches |-> <<>>]
    /\ command' = "run"
    /\ raised' = ""
    /\ UNCHANGED <<store, matches_file, scraped>>
    /\ RunFrame

\* Step 1 of cmd_run: cmd_scrape(), the scrapers having returned all_jobs.
RunScrape(all_jobs) ==
    /\ run.pc = "scrape"
    /\ LET existing_jobs == store
           existing_ids == {existing_jobs[i].id : i \in 1..Len(existing_jobs)}
           new_jobs == Deduplicate(all_jobs, 1, existing_ids, <<>>)
       IN  store' = existing_jobs \o new_jobs
    /\ scraped' = all_jobs
    /\ run' = [run EXCEPT !.pc = "match", !.stages = Append(@, "scrape")]
    /\ UNCHANGED <<matches_file, raised, command>>
    /\ RunFrame

\* Step 2 of cmd_run: matches = cmd_match().  An exception raised in it ends
\* cmd_run, which catches none.
RunMatch ==
    /\ run.pc = "match"
    /\ IF store = <<>>
       THEN /\ run' = [pc |-> "generate",
                       stages |-> Append(run.stages, "match"),
                       matches |-> <<>>]
            /\ UNCHANGED <<store, matches_file, raised>>
       ELSE IF FitVocabulary(get_skills_text(profile)) = {}
       THEN /\ run' = [run EXCEPT !.pc = "raised",
                                  !.stages = Append(@, "match")]
            /\ raised' = "ValueError"
            /\ UNCHANGED <<store, matches_file>>
       ELSE LET the_scorer == FittedScorer(profile)
                scored == score_jobs(the_scorer, store)
                r == filter_matches(exclude_no_salary, scored.jobs,
                                    NoMinScore)
                the_matches == JobsAt(SortDesc(r.filtered, r.jobs), r.jobs)
            IN  IF scored.raised # ""
                THEN /\ run' = [run EXCEPT !.pc = "raised",
                                           !.stages = Append(@, "match")]
                     /\ raised' = scored.raised
                     /\ UNCHANGED <<store, matches_file>>
                ELSE /\ run' = [pc |-> "generate",
                                stages |-> Append(run.stages, "match"),
                                matches |-> the_matches]
                     /\ store' = scored.jobs
                     /\ matches_file' = the_matches
                     /\ UNCHANGED raised
    /\ UNCHANGED <<scraped, command>>
    /\ RunFrame

\* cmd_generate(), as step 3 of cmd_run or as `python main.py generate`:
\* with no match in the matches file it returns []; else it calls
\* CoverLetterGenerator(), whose __init__ reads config.ANTHROPIC_API_KEY,
\* an attribute config.py does not define: AttributeError.  In cmd_run the
\* exception ends the run; on return, cmd_run goes on to cmd_notify() if
\* matches is not empty.
CmdGenerate ==
    /\ run.pc \in {"idle", "generate"}
    /\ raised' = IF matches_file = <<>> THEN "" ELSE "AttributeError"
    /\ IF run.pc = "idle"
       THEN /\ command' = "generate"
            /\ UNCHANGED run
       ELSE /\ run' = [run EXCEPT
                          !.pc = IF matches_file # <<>> THEN "raised"
                                 ELSE IF run.matches # <<>> THEN "notify"
                                 ELSE "finish",
                          !.stages = Append(@, "generate")]
            /\ UNCHANGED command
    /\ UNCHANGED <<store, matches_file, scraped>>
    /\ RunFrame

\* cmd_notify(), as step 4 of cmd_run or as `python main.py notify`: the
\* digest is sent, or not, and nothing is written.
CmdNotify ==
    /\ run.pc \in {"idle", "notify"}
    /\ raised' = ""
    /\ IF run.pc = "idle"
       THEN /\ command' = "notify"
            /\ UNCHANGED run
       ELSE /\ run' = [run EXCEPT !.pc = "finish",
                                  !.stages = Append(@, "notify")]
            /\ UNCHANGED command
    /\ UNCHANGED <<store, matches_file, scraped>>
    /\ RunFrame

\* cmd_run prints PIPELINE COMPLETE and returns.
FinishRun ==
    /\ run.pc = "finish"
    /\ run' = [run EXCEPT !.pc = "done"]
    /\ UNCHANGED <<store, matches_file, scraped, command, raised>>
    /\ RunFrame

NextRun ==
    \/ StartRun
    \/ \E all_jobs \in ScrapeRuns(MaxScraped) : RunScrape(all_jobs)
    \/ RunMatch
    \/ CmdGenerate
    \/ CmdNotify
    \/ FinishRun

SpecRun == InitRun /\ [][NextRun]_vars

\* Once called, cmd_run is executed on: the interpreter takes the next step
\* of a run under way.  Fairness is stated for the scrape stage and for the
\* steps that follow the return of cmd_match, those the notify stage waits
\* for; a run that has raised has no further step.
SpecRunLive ==
    /\ InitRun
    /\ [][NextRun]_vars
    /\ WF_vars(\E all_jobs \in ScrapeRuns(MaxScraped) : RunScrape(all_jobs))
    /\ WF_vars(run.pc = "generate" /\ CmdGenerate)
    /\ WF_vars(run.pc = "notify" /\ CmdNotify)
    /\ WF_vars(FinishRun)

(***************************************************************************)
(* filter_matches called with a threshold on a scored list                 *)
(***************************************************************************)

\* The min_score arguments of the calls: none, 0, and thresholds below, at
\* and above the configured ones, in tenths of a point.
MinScores ==
    {NoMinScore, 0, 10 * 30, 10 * SCORE_THRESHOLD_LOW,
     10 * SCORE_THRESHOLD_HIGH}

\* The state after scorer.score_jobs(jobs) returned, for the lists it
\* returns on.
InitFilter ==
    /\ profile \in {p \in Profiles : FitVocabulary(get_skills_text(p)) # {}}
    /\ exclude_no_salary \in BOOLEAN
    /\ scorer = FittedScorer(profile)
    /\ jobs \in {score_jobs(scorer, list).jobs :
                    list \in {l \in Lists(MaxJobs) :
                                 score_jobs(scorer, l).raised = ""}}
    /\ matches = <<>>
    /\ prev_matches = <<>>
    /\ passes = 0
    /\ log = <<>>
    /\ returned = <<>>
    /\ extracted = NotExtracted
    /\ raised = ""
    /\ last = "score_jobs"
    /\ call = NoCall
    /\ store = <<>>
    /\ matches_file = <<>>
    /\ scraped = <<>>
    /\ command = ""
    /\ min_score = NoMinScore
    /\ run = NoRun
    /\ generation = NoGeneration

\* scorer.filter_matches(jobs, m), or scorer.filter_matches(jobs) when m is
\* NoMinScore: matches is the list returned, in the order of the input.
FilterMatches(m) ==
    /\ LET r == filter_matches(exclude_no_salary, jobs, m)
       IN  /\ jobs' = r.jobs
           /\ matches' = r.filtered
           /\ log' = r.log
    /\ min_score' = m
    /\ raised' = ""
    /\ last' = "filter_matches"
    /\ UNCHANGED <<profile, exclude_no_salary, scorer, prev_matches, passes,
                   returned, extracted, call, cli_vars, run, generation>>

NextFilter == \E m \in MinScores : FilterMatches(m)

SpecFilter == InitFilter /\ [][NextFilter]_vars

(***************************************************************************)
(* generate_for_high_matches                                               *)
(***************************************************************************)

\* No call has been made on the generator.
InitGen ==
    /\ profile \in Profiles
    /\ exclude_no_salary = FALSE
    /\ scorer = NoScorer
    /\ jobs = <<>>
    /\ matches = <<>>
    /\ prev_matches = <<>>
    /\ passes = 0
    /\ log = <<>>
    /\ returned = <<>>
    /\ extracted = NotExtracted
    /\ raised = ""
    /\ last = "start"
    /\ call = NoCall
    /\ store = <<>>
    /\ matches_file = <<>>
    /\ scraped = <<>>
    /\ command = ""
    /\ min_score = NoMinScore
    /\ run = NoRun
    /\ generation = NoGeneration

\* generator.generate_for_high_matches(list), the calls of generate_and_save
\* numbered in failing returning None.
GenerateForHighMatches(list, failing) ==
    /\ LET r == generate_for_high_matches(list, failing)
       IN  generation' = [called |-> TRUE, jobs |-> r.jobs,
                          results |-> r.results, attempts |-> r.attempts]
    /\ raised' = ""
    /\ last' = "generate_for_high_matches"
    /\ UNCHANGED <<profile, exclude_no_salary, scorer, jobs, matches,
                   prev_matches, passes, log, returned, extracted, call,
                   cli_vars, min_score, run>>

NextGen ==
    \E list \in MatchLists(MaxMatches), failing \in Failures(MaxMatches) :
       GenerateForHighMatches(list, failing)

SpecGen == InitGen /\ [][NextGen]_vars

(***************************************************************************)
(* Properties                                                              *)
(***************************************************************************)

\* A sub-score lies in [0, 100] points.
InRange(x) == 0 <= x /\ x <= Pts(100)

\* C1: with the configured weights, which sum to 1.0, every composite score
\* that score_job returned or that score_jobs attached to a job lies in
\* [0, 100], and each of the five sub-scores of a job that can be scored lies
\* in [0, 100].
C1_ScoreInRange ==
    /\ SCORING_WEIGHTS.title_match + SCORING_WEIGHTS.location_match
         + SCORING_WEIGHTS.skills_overlap + SCORING_WEIGHTS.experience_fit
         + SCORING_WEIGHTS.donor_match = 100
    /\ \A i \in 1..Len(jobs) :
          /\ jobs[i].score # NoScore => jobs[i].score \in 0..1000
          /\ \A v \in returned[i] : v \in 0..1000
          /\ (scorer.state = "ready" /\ ~TitleRaises(jobs[i].title)) =>
                LET scores == SubScores(scorer, jobs[i])
                IN  /\ InRange(scores.title)
                    /\ InRange(scores.location)
                    /\ InRange(scores.skills)
                    /\ InRange(scores.experience)
                    /\ InRange(scores.donor)

\* C1 happens: score_job returned a score for a job whose boosted similarity
\* reaches the cap, and score_jobs attached a score to a job.
C1_Witness ==
    \/ \E i \in 1..Len(jobs) :
          /\ returned[i] # {}
          /\ SubScores(scorer, jobs[i]).skills = Pts(100)
    \/ /\ last = "score_jobs"
       /\ \E i \in 1..Len(jobs) :
             /\ jobs[i].score # NoScore
             /\ SubScores(scorer, jobs[i]).skills = Pts(100)

\* The profile and the job of the end-to-end scenario.
ScenarioProfile ==
    CVProfile(<<T(<<"Program", "Director">>)>>, <<>>, 8,
              <<>>, <<>>, <<>>, <<>>)

IsScenarioJob(job) ==
    /\ job.title = SeniorTitle
    /\ job.description = <<>>
    /\ job.location = T(<<"Nairobi,", "Kenya">>)
    /\ job.experience_required = <<N(5), W("-"), N(10), W("years")>>

\* C2: for the scenario's profile (target role "Program Director", 8 years,
\* no donors) and job (title "Senior Program Director - East Africa", empty
\* description, location "Nairobi, Kenya", experience "5-10 years") the
\* sub-scores are title 100, location 90, skills 30, experience 100 and donor
\* 30, and score_job returns 73.5.
C2_Scenario ==
    \A i \in 1..Len(jobs) :
       (/\ scorer.state = "ready"
        /\ scorer.profile = ScenarioProfile
        /\ IsScenarioJob(jobs[i])
        /\ returned[i] # {}) =>
          /\ SubScores(scorer, jobs[i]) =
                [title |-> Pts(100), location |-> Pts(90),
                 skills |-> Pts(30), experience |-> Pts(100),
                 donor |-> Pts(30)]
          /\ returned[i] = {735}

\* C3: a second filter-and-rank pass over the same scored list, right after
\* the first, gives the same jobs in the same order as the first.
C3_Idempotent == passes = 2 => matches = prev_matches

\* C4: score_jobs does not raise, and when it ends every job of the list
\* that has a title carries a score, whatever the other jobs of the list
\* look like.
C4_AllScored ==
    last = "score_jobs" =>
       \A i \in 1..Len(jobs) :
          ~TitleRaises(jobs[i].title) => jobs[i].score # NoScore

\* Every string sequence of the profile is empty.
AllSequencesEmpty(p) ==
    /\ p.target_roles = <<>>
    /\ p.target_locations = <<>>
    /\ p.skills = <<>>
    /\ p.sectors = <<>>
    /\ p.donors_experience = <<>>
    /\ p.keywords_boost = <<>>

\* C5: constructing the scorer from a profile whose string sequences are all
\* empty does not raise and gives a usable scorer.
C5_EmptyProfileValid ==
    (last = "JobScorer" /\ AllSequencesEmpty(profile)) =>
       (raised = "" /\ scorer.state = "ready")

\* The score a match is ranked by, in tenths.
RankScore(i) == IF jobs[i].score = NoScore THEN 0 ELSE jobs[i].score

\* C6: the match list is ordered by non-increasing score, and two matches of
\* equal score stand in the order they have in the input list.
C6_RankedStable ==
    last = "filter_and_rank" =>
       \A a, b \in 1..Len(matches) :
          a < b =>
             \/ RankScore(matches[a]) > RankScore(matches[b])
             \/ /\ RankScore(matches[a]) = RankScore(matches[b])
                /\ matches[a] < matches[b]

\* C6 happens: the match list holds two jobs of equal score, or a job ranked
\* before one that precedes it in the input.
C6_Witness ==
    /\ last = "filter_and_rank"
    /\ \E a, b \in 1..Len(matches) :
          /\ a < b
          /\ \/ RankScore(matches[a]) = RankScore(matches[b])
             \/ matches[a] > matches[b]

\* The salary policy for a job as it stands before the filter: an extracted
\* monthly salary decides by MIN_SALARY_USD, no salary by EXCLUDE_NO_SALARY.
PolicyPasses(job) ==
    LET salary == extract_salary(job)
    IN  IF salary # NoSalary
        THEN salary >= 120 * MIN_SALARY_USD
        ELSE ~exclude_no_salary

\* The jobs of the list that reach the default threshold, a job without a
\* score counting as 0.
ReachThreshold ==
    {i \in 1..Len(jobs) :
        (IF jobs[i].score = NoScore THEN 0 ELSE jobs[i].score)
            >= 10 * SCORE_THRESHOLD_LOW}

\* C7: in a filter pass, a job that reaches the score threshold passes the
\* salary filter if and only if its extracted monthly salary is at least
\* MIN_SALARY_USD or, when no salary can be extracted, EXCLUDE_NO_SALARY is
\* false; the jobs that fail are the ones a message is printed for.
C7_SalaryPolicy ==
    [][last' = "filter_and_rank" =>
          \A i \in ReachThreshold :
             /\ (\E k \in 1..Len(matches') : matches'[k] = i)
                   <=> PolicyPasses(jobs[i])
             /\ (\E k \in 1..Len(log') : log'[k] = i)
                   <=> ~PolicyPasses(jobs[i])]_vars

\* C7 happens: a pass kept a job on its salary and excluded another, and a
\* pass decided a job without salary.
C7_Witness ==
    /\ last = "filter_and_rank"
    /\ \/ matches # <<>> /\ log # <<>>
       \/ /\ exclude_no_salary
          /\ \E k \in 1..Len(log) : extract_salary(jobs[log[k]]) = NoSalary

\* C8: filter_matches with the default threshold returns exactly the jobs of
\* the input whose score (0 when there is none) is not below
\* SCORE_THRESHOLD_LOW and which pass the salary policy, each one once, and
\* the input list keeps its jobs.
C8_FilterExact ==
    [][last' = "filter_and_rank" =>
          LET qualifying == {i \in ReachThreshold : PolicyPasses(jobs[i])}
          IN  /\ {matches'[k] : k \in 1..Len(matches')} = qualifying
              /\ Len(matches') = Cardinality(qualifying)
              /\ Len(jobs') = Len(jobs)
              /\ \A i \in 1..Len(jobs) : jobs'[i].id = jobs[i].id]_vars

\* C8 happens: a pass over two scored jobs kept one and dropped the other
\* for its score, or dropped a job that has no score.
C8_Witness ==
    /\ last = "filter_and_rank"
    /\ \/ /\ Len(jobs) = 2
          /\ Len(matches) = 1
          /\ log = <<>>
          /\ \A i \in 1..Len(jobs) : jobs[i].score # NoScore
       \/ /\ matches = <<>>
          /\ \E i \in 1..Len(jobs) : jobs[i].score = NoScore

\* The text _extract_salary reads for a job.
SalaryText(job) == OrEmpty(job.salary) \o OrEmpty(job.description)

\* C9: from "$5,000 per month" the extracted monthly amount is 5000.0, from
\* "$60,000 per year" it is 5000.0, and from a text without any number the
\* result is None.
C9_SalaryExamples ==
    extracted.job # 0 =>
       LET text == SalaryText(jobs[extracted.job])
       IN  /\ text = <<W("$"), N(5000), W("per"), W("month")>>
                 => extracted.value = 120 * 5000
           /\ text = <<W("$"), N(60000), W("per"), W("year")>>
                 => extracted.value = 120 * 5000
           /\ (\A k \in 1..Len(text) : text[k].k # "n")
                 => extracted.value = NoSalary

\* C9 happens: _extract_salary returned for the annual text.
C9_Witness ==
    /\ extracted.job # 0
    /\ SalaryText(jobs[extracted.job])
          = <<W("$"), N(60000), W("per"), W("year")>>
    /\ extracted.value = 120 * 5000

\* C10: the calls of score_job for equal jobs, under one profile and one
\* configuration, all return the same score, whatever was scored in between.
C10_Deterministic ==
    \A i, j \in 1..Len(jobs) :
       jobs[i] = jobs[j] => Cardinality(returned[i] \cup returned[j]) <= 1

\* C10 happens: score_job has returned for equal jobs at two positions of
\* the list, the jobs having a description to vectorize.
C10_Witness ==
    \E i, j \in 1..Len(jobs) :
       /\ i # j
       /\ jobs[i] = jobs[j]
       /\ Truthy(jobs[i].description)
       /\ returned[i] # {}
       /\ returned[j] # {}

\* The scores the list carries and the scores score_job returned are those
\* of each job scored alone by the fitted scorer.
ScoredAsAlone ==
    \A i \in 1..Len(jobs) :
       /\ jobs[i].score # NoScore => jobs[i].score = score_job(scorer, jobs[i])
       /\ \A v \in returned[i] : v = score_job(scorer, jobs[i])

C12_NoDuplicateIds ==
    /\ \A i, j \in 1..Len(store) : i # j => store[i].id # store[j].id
    /\ \A i \in 1..Len(store) :
          store[i].id = generate_id(store[i].url, store[i].title)

\* C12 happens: a scrape returned the same posting twice, and that posting
\* was already stored and scored by an earlier match.
C12_Witness ==
    /\ command = "scrape"
    /\ Len(scraped) = 2
    /\ scraped[1].id = scraped[2].id
    /\ \E i \in 1..Len(store) :
          store[i].id = scraped[1].id /\ store[i].score # NoScore

\* The positions of a scraped list whose job is neither stored nor preceded
\* in the list by a job of the same id.
FirstWrites(list, stored) ==
    {k \in 1..Len(list) :
        /\ \A i \in 1..Len(stored) : stored[i].id # list[k].id
        /\ \A m \in 1..(k - 1) : list[m].id # list[k].id}

\* The a-th smallest element of a set of positions.
NthOf(S, a) == CHOOSE k \in S : Cardinality({m \in S : m < k}) = a - 1

\* C13: after a scrape the jobs file starts with the records it held
\* before, unchanged and in their order, followed by exactly the scraped
\* jobs whose id was neither stored nor seen earlier in the same scrape, in
\* the order they were scraped.
C13_FirstWriteWins ==
    [][command' = "scrape" =>
          LET kept == FirstWrites(scraped', store)
          IN  /\ Len(store') = Len(store) + Cardinality(kept)
              /\ \A i \in 1..Len(store) : store'[i] = store[i]
              /\ \A a \in 1..Cardinality(kept) :
                    store'[Len(store) + a] = scraped'[NthOf(kept, a)]]_vars

\* C13 happens: a scrape returned a posting that was stored with another
\* description, which the file keeps, and another posting, which the file
\* got appended.
C13_Witness ==
    /\ command = "scrape"
    /\ Len(scraped) = 2
    /\ scraped[1].id # scraped[2].id
    /\ \E i \in 1..Len(store) :
          /\ store[i].id = scraped[1].id
          /\ store[i].description # scraped[1].description
    /\ store[Len(store)] = scraped[2]

\* The title of the job contains the role, case ignored.
TitleContains(role, job) ==
    InText(Spell(Lower(role)), Spell(Lower(job.title)))

\* C14: when the title contains one of the profile's target roles, case
\* ignored, _score_title_match returns 100, wherever that role stands in
\* target_roles and whatever the other roles are.
C14_TitleExact ==
    (call.fn = "_score_title_match" /\ raised = "") =>
       ((\E r \in 1..Len(scorer.profile.target_roles) :
            TitleContains(scorer.profile.target_roles[r], call.job))
           => call.result = Pts(100))

\* C14 happens: the title contains the second target role, in another
\* spelling and among other words, and not the first.
C14_Witness ==
    /\ call.fn = "_score_title_match"
    /\ raised = ""
    /\ Len(scorer.profile.target_roles) = 2
    /\ ~TitleContains(scorer.profile.target_roles[1], call.job)
    /\ TitleContains(scorer.profile.target_roles[2], call.job)
    /\ scorer.profile.target_roles[2] # call.job.title
    /\ call.result = Pts(100)

\* The entries of the location table whose key occurs in the job's
\* location, case ignored.
TableHits(job) ==
    {i \in 1..Len(LOCATION_SCORES) :
        InText(LOCATION_SCORES[i][1], Spell(Lower(job.location)))}

\* One of the profile's target locations occurs in the job's location.
TargetHit(p, job) ==
    \E k \in 1..Len(p.target_locations) :
       InText(Spell(Lower(p.target_locations[k])), Spell(Lower(job.location)))

\* C15: _score_location_match returns 40 for an empty or missing location
\* under every profile, and 30 for a location that is present and matches
\* neither the table nor the target locations.
C15_LocationUnknown ==
    call.fn = "_score_location_match" =>
       /\ ~Truthy(call.job.location) => call.result = Pts(40)
       /\ (/\ Truthy(call.job.location)
           /\ TableHits(call.job) = {}
           /\ ~TargetHit(scorer.profile, call.job)) => call.result = Pts(30)

\* C15 happens: the method returned for a job without location under a
\* profile that names target locations.
C15_Witness ==
    /\ call.fn = "_score_location_match"
    /\ ~Truthy(call.job.location)
    /\ scorer.profile.target_locations # <<>>
    /\ call.result = Pts(40)

\* C19: for a location that is present, _score_location_match returns the
\* score of the first table entry whose key occurs in it; the target
\* locations count, for 90, only when no table entry matches.
C19_LocationPrecedence ==
    (call.fn = "_score_location_match" /\ Truthy(call.job.location)) =>
       LET hits == TableHits(call.job)
       IN  /\ hits # {} =>
                \E i \in hits :
                   /\ \A j \in hits : i <= j
                   /\ call.result = Pts(LOCATION_SCORES[i][2])
           /\ (hits = {} /\ TargetHit(scorer.profile, call.job))
                 => call.result = Pts(90)

\* C19 happens: the location matches two table entries of different score
\* and a target location as well, and got the score of the first entry.
C19_Witness ==
    /\ call.fn = "_score_location_match"
    /\ Truthy(call.job.location)
    /\ TargetHit(scorer.profile, call.job)
    /\ \E i, j \in TableHits(call.job) :
          /\ i < j
          /\ LOCATION_SCORES[i][2] # LOCATION_SCORES[j][2]
          /\ call.result = Pts(LOCATION_SCORES[i][2])
    /\ call.result # Pts(90)

\* The elements of a sequence.
Range(q) == {q[k] : k \in 1..Len(q)}

\* C16: the low threshold is not above the high one; after a filter pass
\* every match is in exactly one of the buckets high (score >= HIGH) and
\* good (LOW <= score < HIGH), and a job that scores HIGH or more and passes
\* the salary policy is a match and a high match.
C16_Buckets ==
    [][last' = "filter_and_rank" =>
          LET high == Range(high_matches(matches', jobs'))
              good == Range(good_matches(matches', jobs'))
          IN  /\ SCORE_THRESHOLD_LOW <= SCORE_THRESHOLD_HIGH
              /\ \A i \in Range(matches') : (i \in high) # (i \in good)
              /\ \A i \in 1..Len(jobs) :
                    (/\ jobs[i].score # NoScore
                     /\ jobs[i].score >= 10 * SCORE_THRESHOLD_HIGH
                     /\ PolicyPasses(jobs[i]))
                       => (i \in Range(matches') /\ i \in high)]_vars

\* C16 happens: a filter pass returned a high match and a good match.
C16_Witness ==
    /\ last = "filter_and_rank"
    /\ high_matches(matches, jobs) # <<>>
    /\ good_matches(matches, jobs) # <<>>

\* The year numbers found in experience_required plus description.
YearsOf(job) ==
    Range(FindYears(Lower(OrEmpty(job.experience_required)
                              \o OrEmpty(job.description)), 1))

\* The least and the greatest element of a non-empty set of numbers.
Least(S) == CHOOSE x \in S : \A y \in S : x <= y
Greatest(S) == CHOOSE x \in S : \A y \in S : y <= x

\* C17: with N the year numbers of the job and y the candidate's years,
\* _score_experience_fit returns 70 when N is empty, else 100 when
\* min(N) <= y <= max(N) + 2, else 80 when y >= min(N) - 2, else 40.
C17_ExperienceFit ==
    call.fn = "_score_experience_fit" =>
       LET years == YearsOf(call.job)
           y == scorer.profile.years_experience
       IN  call.result =
              IF years = {} THEN Pts(70)
              ELSE IF Least(years) <= y /\ y <= Greatest(years) + 2
                   THEN Pts(100)
              ELSE IF y >= Least(years) - 2 THEN Pts(80)
              ELSE Pts(40)

\* C17 happens: the job states two year numbers and the candidate, above
\* the greater one but within the grace of two years, got 100.
C17_Witness ==
    /\ call.fn = "_score_experience_fit"
    /\ Cardinality(YearsOf(call.job)) = 2
    /\ scorer.profile.years_experience > Greatest(YearsOf(call.job))
    /\ call.result = Pts(100)

\* The score of one role for a job's title: 100 when the title contains the
\* role phrase, 90 when it contains every word of the role, else 80 times
\* the share of the role's words it contains.
PerRoleScore(role, job) ==
    LET words == Spell(Lower(role))
        title == Spell(Lower(job.title))
        found == {i \in 1..Len(words) : InText(<<words[i]>>, title)}
    IN  IF InText(words, title) THEN Pts(100)
        ELSE IF Cardinality(found) = Len(words) THEN Pts(90)
        ELSE (Cardinality(found) * Pts(80)) \div Len(words)

\* The title contains one of the leadership terms.
HasLeadershipTerm(job) ==
    \E term \in {"director", "head", "chief", "lead", "senior", "manager"} :
       InText(<<term>>, Spell(Lower(job.title)))

\* C18: _score_title_match returns the greatest per-role score over the
\* target roles (0 without roles), raised to 50 at least when the title
\* contains a leadership term; without target roles that is 50 or 0.
C18_TitleMax ==
    (call.fn = "_score_title_match" /\ raised = "") =>
       LET roles == scorer.profile.target_roles
           best == Greatest({0} \cup {PerRoleScore(roles[r], call.job) :
                                         r \in 1..Len(roles)})
       IN  /\ call.result =
                 IF HasLeadershipTerm(call.job) /\ best < Pts(50)
                 THEN Pts(50) ELSE best
           /\ roles = <<>> =>
                 call.result =
                    IF HasLeadershipTerm(call.job) THEN Pts(50) ELSE 0

\* C18 happens: the title holds two of the three words of the only role and
\* a leadership term, and got two thirds of 80.
C18_Witness ==
    /\ call.fn = "_score_title_match"
    /\ raised = ""
    /\ HasLeadershipTerm(call.job)
    /\ call.result = (2 * Pts(80)) \div 3

\* The profile's donors, case ignored, that occur in the job's description
\* plus organization: a donor listed twice is one element.
DonorsFound(p, job) ==
    LET text == Spell(Lower(Str(job.description) \o Str(job.organization)))
    IN  {Spell(Lower(p.donors_experience[k])) :
            k \in {m \in 1..Len(p.donors_experience) :
                      InText(Spell(Lower(p.donors_experience[m])), text)}}

\* C20: _score_donor_match returns 30 when none of the profile's donors
\* occurs in description plus organization, 70 when exactly one distinct
\* donor occurs and 100 when two or more distinct donors occur, a donor
\* listed more than once or in two spellings counting once.
C20_DonorDistinct ==
    call.fn = "_score_donor_match" =>
       LET n == Cardinality(DonorsFound(scorer.profile, call.job))
       IN  call.result =
              IF n = 0 THEN Pts(30) ELSE IF n = 1 THEN Pts(70) ELSE Pts(100)

\* An amount in 1/120 dollar when it lies in the band 500..50000, else None.
InBand(x) == IF 120 * 500 <= x /\ x <= 120 * 50000 THEN x ELSE NoSalary

\* The spellings of the per-year qualifiers.
AnnualQualifiers ==
    {<<"per", "year">>, <<"per", "annum">>, <<"/", "year">>,
     <<"/", "annum">>, <<"annually">>, <<"pa">>}

\* The text is one USD amount followed by a per-year qualifier, and nothing
\* else.
SoleAnnualUsd(text) ==
    \E q \in AnnualQualifiers :
       \/ \E c \in {"$", "usd"} : Spell(text) = <<c, "#">> \o q
       \/ \E c \in {"usd", "dollar", "dollars"} : Spell(text) = <<"#", c>> \o q

\* The one number of a text that holds exactly one.
SoleNumber(text) ==
    text[CHOOSE k \in 1..Len(text) : text[k].k = "n"].v

\* C21: when the only salary mention of a job is a USD amount with an
\* explicit per-year qualifier, _extract_salary returns the stated amount
\* divided by 12 (when that lies in the band), also for stated amounts of
\* 20000 or less.
C21_AnnualConversion ==
    call.fn = "_extract_salary" =>
       LET text == Lower(SalaryText(call.job))
       IN  SoleAnnualUsd(text)
              => call.result = InBand((120 * SoleNumber(text)) \div 12)

\* The candidates of a text in the order _extract_salary enumerates them:
\* pattern by pattern in list order, within one pattern in text order; each
\* is its converted amount, or None when it is rejected.
CandidatesOf(text) ==
    LET of(i) == LET found == FindAll(patterns[i + 1], text, 1)
                 IN  [j \in 1..Len(found) |-> Candidate(i, found[j])]
    IN  of(0) \o of(1) \o of(2) \o of(3) \o of(4) \o of(5)

\* The first element of a sequence of candidates that was not rejected.
FirstAccepted(cs) ==
    LET ok == {k \in 1..Len(cs) : cs[k] # NoSalary}
    IN  IF ok = {} THEN NoSalary ELSE cs[Least(ok)]

\* C22: _extract_salary returns None or an amount v with 500 <= v <= 50000;
\* a candidate outside the band is rejected and the scan goes on, so that
\* None is returned only when no candidate lies in the band.
C22_SalaryBand ==
    call.fn = "_extract_salary" =>
       LET cs == CandidatesOf(Lower(SalaryText(call.job)))
       IN  /\ \/ call.result = NoSalary
              \/ 120 * 500 <= call.result /\ call.result <= 120 * 50000
           /\ call.result = NoSalary
                 <=> \A k \in 1..Len(cs) : InBand(cs[k]) = NoSalary

\* C22 happens: the first candidate of the text was outside the band and a
\* later one was returned.
C22_Witness ==
    /\ call.fn = "_extract_salary"
    /\ LET found == FindAll(patterns[1], Lower(SalaryText(call.job)), 1)
       IN  /\ Len(found) = 2
           /\ found[1].k = "n"
           /\ 120 * found[1].v < 120 * 500
           /\ call.result = 120 * found[2].v

\* C23: the extracted salary is the first candidate in the band when the
\* candidates are enumerated pattern by pattern in list order and, within
\* one pattern, in text order, the text being the salary field followed by
\* the description.
C23_PatternPriority ==
    call.fn = "_extract_salary" =>
       call.result
          = FirstAccepted(CandidatesOf(
               Lower(OrEmpty(call.job.salary)
                        \o OrEmpty(call.job.description))))

\* C23 happens: in "3,500 USD $4,000" the match of the second pattern comes
\* first in the text and the match of the first pattern was returned; and
\* with one amount in each field the one of the salary field is returned.
C23_Witness ==
    /\ call.fn = "_extract_salary"
    /\ \/ /\ call.job.salary = <<N(3500), W("USD"), W("$"), N(4000)>>
          /\ call.result = 120 * 4000
       \/ /\ call.job.salary = <<W("$"), N(4000)>>
          /\ call.job.description = <<W("$"), N(6000)>>
          /\ call.result = 120 * 4000

\* The text is one amount with a EUR marker before or after it, and nothing
\* else.
SoleEur(text) ==
    \/ \E c \in {"eur", "€"} : Spell(text) = <<c, "#">>
    \/ \E c \in {"eur", "euro", "euros"} : Spell(text) = <<"#", c>>

\* C24: an amount matched by a EUR pattern is multiplied by 1.1, and it is
\* divided by 12 exactly when the raw parsed value exceeds 20000: a raw EUR
\* value between 18182 and 20000 is not treated as annual.
C24_EurRawThreshold ==
    call.fn = "_extract_salary" =>
       LET text == Lower(SalaryText(call.job))
           raw == SoleNumber(text)
           usd == (120 * raw * 11) \div 10
       IN  SoleEur(text)
              => call.result
                    = InBand(IF raw > 20000 THEN usd \div 12 ELSE usd)

\* C28: _score_experience_fit returns 40, 70, 80 or 100 and never 60, and a
\* candidate whose years exceed the highest year number of the job by more
\* than 2 gets 80.
C28_ExperienceValues ==
    call.fn = "_score_experience_fit" =>
       LET years == YearsOf(call.job)
           y == scorer.profile.years_experience
       IN  /\ call.result \in {Pts(40), Pts(70), Pts(80), Pts(100)}
           /\ (years # {} /\ y > Greatest(years) + 2)
                 => call.result = Pts(80)

\* C28 happens: a candidate beyond the grace above the highest year number
\* of the job got 80.
C28_Witness ==
    /\ call.fn = "_score_experience_fit"
    /\ YearsOf(call.job) # {}
    /\ scorer.profile.years_experience > Greatest(YearsOf(call.job)) + 2
    /\ call.result = Pts(80)

\* The number of messages the last filter pass printed for job i.
Messages(i) == Cardinality({k \in 1..Len(log) : log[k] = i})

\* C25: filter_matches prints exactly one message for each job it excludes,
\* by the score threshold or by the salary policy, and none for a job it
\* keeps.
C25_Diagnostics ==
    last = "filter_and_rank" =>
       \A i \in 1..Len(jobs) :
          Messages(i) = IF \E k \in 1..Len(matches) : matches[k] = i
                        THEN 0 ELSE 1

\* C26: score_jobs changes no field of a job but score; filter_matches
\* changes no field of a job but salary, keeps the list's jobs and their
\* order, and leaves a job below the score threshold as it was.
C26_Frame ==
    [][/\ last' = "score_jobs" =>
             /\ Len(jobs') = Len(jobs)
             /\ \A i \in 1..Len(jobs) :
                   [jobs'[i] EXCEPT !.score = jobs[i].score] = jobs[i]
       /\ last' = "filter_and_rank" =>
             /\ Len(jobs') = Len(jobs)
             /\ \A i \in 1..Len(jobs) :
                   /\ [jobs'[i] EXCEPT !.salary = jobs[i].salary] = jobs[i]
                   /\ ScoreOrZero(jobs[i]) < 10 * SCORE_THRESHOLD_LOW
                         => jobs'[i] = jobs[i]]_vars

\* C26 happens: a filter pass rewrote the salary of a job it decided on
\* salary and dropped, on its score, a job a salary can be extracted from
\* whose salary field is not in the rewritten form.
C26_Witness ==
    /\ last = "filter_and_rank"
    /\ \E i, j \in 1..Len(jobs) :
          /\ ScoreOrZero(jobs[i]) >= 10 * SCORE_THRESHOLD_LOW
          /\ extract_salary(jobs[i]) # NoSalary
          /\ jobs[i].salary = NormalisedSalary(extract_salary(jobs[i]))
          /\ jobs[j].score # NoScore
          /\ ScoreOrZero(jobs[j]) < 10 * SCORE_THRESHOLD_LOW
          /\ extract_salary(jobs[j]) # NoSalary
          /\ jobs[j].salary # NormalisedSalary(extract_salary(jobs[j]))

\* C29: filter_matches called with an explicit min_score m drops on score
\* grounds exactly the jobs whose score is below m, for every m including
\* 0, and uses SCORE_THRESHOLD_LOW only when no min_score is passed: the
\* jobs returned are those that reach the threshold and pass the salary
\* policy.
C29_ExplicitMinScore ==
    [][last' = "filter_matches" =>
          LET m == IF min_score' = NoMinScore
                   THEN 10 * SCORE_THRESHOLD_LOW ELSE min_score'
          IN  \A i \in 1..Len(jobs) :
                 (\E k \in 1..Len(matches') : matches'[k] = i)
                    <=> (ScoreOrZero(jobs[i]) >= m /\ PolicyPasses(jobs[i]))
      ]_vars

\* The jobs of the last call of generate_for_high_matches whose
\* cover_letter_path is set.
WithLetter ==
    {i \in 1..Len(generation.jobs) :
        generation.jobs[i].cover_letter_path # Null}

\* C30: in one call of generate_for_high_matches, cover_letter_path is set
\* on at most MAX_COVER_LETTERS_PER_RUN jobs and only on jobs scoring
\* SCORE_THRESHOLD_HIGH or more, and at most MAX_COVER_LETTERS_PER_RUN calls
\* of generate_and_save are made, also when calls fail.
C30_LetterCap ==
    generation.called =>
       /\ Cardinality(WithLetter) <= MAX_COVER_LETTERS_PER_RUN
       /\ \A i \in WithLetter :
             ScoreOrZero(generation.jobs[i]) >= 10 * SCORE_THRESHOLD_HIGH
       /\ generation.attempts <= MAX_COVER_LETTERS_PER_RUN

\* The part of C30 the code keeps: the letters saved in one call are at most
\* MAX_COVER_LETTERS_PER_RUN, each for a job scoring SCORE_THRESHOLD_HIGH or
\* more.
LettersCapped ==
    generation.called =>
       /\ Cardinality(WithLetter) <= MAX_COVER_LETTERS_PER_RUN
       /\ \A i \in WithLetter :
             ScoreOrZero(generation.jobs[i]) >= 10 * SCORE_THRESHOLD_HIGH

\* The stages of cmd_run in the order of the pipeline.
StageOrder == <<"scrape", "match", "generate", "notify">>

\* The stages invoked so far are the first stages of the pipeline, in its
\* order.
StagesInOrder ==
    \E n \in 0..Len(StageOrder) : run.stages = SubSeq(StageOrder, 1, n)

\* cmd_notify has been invoked in the run.
NotifyInvoked == \E k \in 1..Len(run.stages) : run.stages[k] = "notify"

\* cmd_match has returned at least one match to cmd_run.
MatchReturnedSome == run.pc = "generate" /\ run.matches # <<>>

\* C27: a full run invokes the stages in the order scrape, match, generate,
\* notify; whenever the match stage returns at least one match the notify
\* stage is eventually invoked in that run, and it is not invoked when
\* there are no matches.
C27_PipelineOrder ==
    /\ []StagesInOrder
    /\ [](NotifyInvoked => run.matches # <<>>)
    /\ (MatchReturnedSome ~> NotifyInvoked)

\* The part of C27 the code keeps: the order of the stages, and no notify
\* stage without matches.
PipelineSafe ==
    /\ StagesInOrder
    /\ NotifyInvoked => run.matches # <<>>

\* In no run is cmd_notify invoked.
NotifyNeverInvoked == ~NotifyInvoked

=============================================================================
